---- MODULE Spec2Model ----
(***************************************************************************)
(* A model of the chunked spatial grid of maladroitthief/lattice           *)
(* (SpatialGrid[T], revision with itemCount and weighted cells).           *)
(*                                                                         *)
(* float64 values are modelled by the records F(n) (a finite value, kept   *)
(* to integers, on which float64 arithmetic is exact), PosInf, NegInf and  *)
(* NaN, with the IEEE-754 rules for +, - and *.  Coordinates and extents   *)
(* are integers with even extents, so that Width/2 and ChunkSize/2 are     *)
(* exact.                                                                  *)
(***************************************************************************)
EXTENDS Integers, Sequences, FiniteSets, Bags, TLC

VARIABLES SizeX, SizeY, ChunkSize, Nodes, itemCount, nodesMu, last, search, weighted,
          threads

vars == <<SizeX, SizeY, ChunkSize, Nodes, itemCount, nodesMu, last, search, weighted,
          threads>>

grid == <<SizeX, SizeY, ChunkSize, Nodes, itemCount>>

----------------------------------------------------------------------------
(* Bounds of the model *)

MaxSize == 2
MaxItems == 2
MaxUnderflow == 1
MaxDeleteItems == 3
MaxSearchSize == 3
MaxSearchItems == 1
MaxDepth == 3
MaxCoord == 9
MaxPathSize == 3
MaxPathItems == 2
MaxPathDepth == 4
MaxCorridor == 4

ChunkSizes == {8}

TestShape == <<4, 4, 8>>

GridShapes == {<<MaxSize, MaxSize, size>> : size \in ChunkSizes} \cup {TestShape}

SearchShapes == (1..MaxSearchSize) \X (1..MaxSearchSize) \X ChunkSizes

ValueSet == {1, 2}

----------------------------------------------------------------------------
(* float64 *)

F(n) == [k |-> "fin", v |-> n]
PosInf == [k |-> "inf", v |-> 0]
NegInf == [k |-> "ninf", v |-> 0]
NaN == [k |-> "nan", v |-> 0]

IsInf1(a) == a.k = "inf"

FNeg(a) ==
    CASE a.k = "fin" -> F(-(a.v))
      [] a.k = "inf" -> NegInf
      [] a.k = "ninf" -> PosInf
      [] OTHER -> NaN

FAdd(a, b) ==
    CASE a.k = "nan" \/ b.k = "nan" -> NaN
      [] a.k = "fin" /\ b.k = "fin" -> F(a.v + b.v)
      [] a.k = "fin" -> b
      [] b.k = "fin" -> a
      [] a.k = b.k -> a
      [] OTHER -> NaN

FSub(a, b) == FAdd(a, FNeg(b))

FSign(a) ==
    CASE a.k = "inf" -> 1
      [] a.k = "ninf" -> -1
      [] OTHER -> IF a.v > 0 THEN 1 ELSE IF a.v < 0 THEN -1 ELSE 0

FMul(a, b) ==
    CASE a.k = "nan" \/ b.k = "nan" -> NaN
      [] a.k = "fin" /\ b.k = "fin" -> F(a.v * b.v)
      [] FSign(a) * FSign(b) = 0 -> NaN
      [] FSign(a) * FSign(b) > 0 -> PosInf
      [] OTHER -> NegInf

\* a >= b and a < b on float64: false when either side is NaN
FRank(a) == CASE a.k = "ninf" -> 0 [] a.k = "fin" -> 1 [] OTHER -> 2

FLess(a, b) ==
    /\ a.k # "nan" /\ b.k # "nan"
    /\ \/ FRank(a) < FRank(b)
       \/ a.k = "fin" /\ b.k = "fin" /\ a.v < b.v

FGeq(a, b) == a.k # "nan" /\ b.k # "nan" /\ ~FLess(a, b)

Abs(n) == IF n < 0 THEN -n ELSE n

Multipliers == {F(1), PosInf}

----------------------------------------------------------------------------
(* mosaic.Vector / mosaic.Rectangle (the geometry collaborator) *)

Min(a, b) == IF a < b THEN a ELSE b
Max(a, b) == IF a > b THEN a ELSE b

NewRectangle(px, py, w, h) == [X |-> px, Y |-> py, Width |-> w, Height |-> h]

MinPoint(r) == [X |-> r.X - (r.Width \div 2), Y |-> r.Y - (r.Height \div 2)]
MaxPoint(r) == [X |-> r.X + (r.Width \div 2), Y |-> r.Y + (r.Height \div 2)]

AreaOfOverlap(r, s) ==
    LET ox == Min(MaxPoint(r).X, MaxPoint(s).X) - Max(MinPoint(r).X, MinPoint(s).X)
        oy == Min(MaxPoint(r).Y, MaxPoint(s).Y) - Max(MinPoint(r).Y, MinPoint(s).Y)
    IN  IF ox <= 0 \/ oy <= 0 THEN 0 ELSE ox * oy

----------------------------------------------------------------------------
(* spatialGridNodeItem, spatialGridNode *)

newSpatialGridNodeItem(value, bounds, weight, multiplier) ==
    [value |-> value, bounds |-> bounds, multiplier |-> multiplier, weight |-> weight]

newSpatialGridNode(x, y, bounds) ==
    [Items |-> <<>>, x |-> x, y |-> y, bounds |-> bounds, weight |-> F(0)]

\* The chunk rectangle of cell (iX, iY): centre (iX*size + size/2, iY*size + size/2).
ChunkBounds(iX, iY, size) ==
    NewRectangle((iX * size) + (size \div 2), (iY * size) + (size \div 2), size, size)

Values(sgn) == [i \in 1..Len(sgn.Items) |-> sgn.Items[i].value]

NodeInsert(sgn, item, bounds, multiplier) ==
    LET weight == FMul(F(AreaOfOverlap(sgn.bounds, bounds)), multiplier)
    IN  [sgn EXCEPT !.Items = Append(@, newSpatialGridNodeItem(item, bounds, weight, multiplier)),
                    !.weight = FAdd(@, weight)]

\* The loop of spatialGridNode.Delete from (0-based) index i on: a match is
\* overwritten by the last item and the slice is cut by one; i advances in
\* either case, so the item moved into place i is not examined.
RECURSIVE DeleteFrom(_, _, _)
DeleteFrom(sgn, item, i) ==
    IF i >= Len(sgn.Items) THEN sgn
    ELSE IF sgn.Items[i + 1].value # item THEN DeleteFrom(sgn, item, i + 1)
    ELSE LET n == Len(sgn.Items)
             moved == [sgn.Items EXCEPT ![i + 1] = sgn.Items[n]]
         IN  DeleteFrom([sgn EXCEPT !.weight = FSub(sgn.weight, sgn.Items[i + 1].weight),
                                    !.Items = SubSeq(moved, 1, n - 1)],
                        item, i + 1)

NodeDelete(sgn, item) == DeleteFrom(sgn, item, 0)

----------------------------------------------------------------------------
(* SpatialGrid *)

\* int(math.Round(x / size)), the conversion of the revision without weights:
\* halves round away from zero.
RoundDiv(x, size) ==
    IF x >= 0 THEN ((2 * x) + size) \div (2 * size)
    ELSE -(((2 * (-x)) + size) \div (2 * size))

\* int(x / size): the float64 quotient truncated toward zero.
TruncDiv(x, size) == IF x >= 0 THEN x \div size ELSE -((-x) \div size)

ClampIndex(index, size) ==
    IF index < 0 THEN 0
    ELSE IF index > size - 1 THEN size - 1
    ELSE index

LocationIn(x, y, sx, sy, size) ==
    <<ClampIndex(TruncDiv(x, size), sx), ClampIndex(TruncDiv(y, size), sy)>>

Location(x, y) == LocationIn(x, y, SizeX, SizeY, ChunkSize)

\* The nodes with the two loop indices exchanged in the node's coordinates.
FreshNodesTransposed(sx, sy, size) ==
    [iX \in 0..(sx - 1) |-> [iY \in 0..(sy - 1) |->
        newSpatialGridNode(iY, iX, ChunkBounds(iY, iX, size))]]

FreshNodes(sx, sy, size) ==
    [iX \in 0..(sx - 1) |-> [iY \in 0..(sy - 1) |->
        newSpatialGridNode(iX, iY, ChunkBounds(iX, iY, size))]]

Size == itemCount

Cells == (0..(SizeX - 1)) \X (0..(SizeY - 1))

NumRecords(nodes) ==
    LET RECURSIVE Sum(_)
        Sum(S) == IF S = {} THEN 0
                  ELSE LET c == CHOOSE c \in S : TRUE
                       IN  Len(nodes[c[1]][c[2]].Items) + Sum(S \ {c})
    IN  Sum(Cells)

Holds(sgn, val) == \E i \in 1..Len(sgn.Items) : sgn.Items[i].value = val

Unlocked == nodesMu.writer = FALSE /\ nodesMu.readers = 0

NoSearch == [pc |-> "idle"]

\* The goroutines that call the grid concurrently, and a goroutine between calls
Threads == {"a", "b"}

NoCall == [pc |-> "idle"]

\* make([]T, n) panics for a negative length; the inner make runs once per
\* row, so only when there is a row.
MakePanics(x, y) == x < 0 \/ (x > 0 /\ y < 0)

\* No argument is examined: the only way not to return a grid is the panic of
\* make.
NewSpatialGrid(x, y, size) ==
    /\ SizeX = x
    /\ SizeY = y
    /\ ChunkSize = size
    /\ Nodes = IF MakePanics(x, y) THEN <<>> ELSE FreshNodes(x, y, size)
    /\ itemCount = 0
    /\ nodesMu = [writer |-> FALSE, readers |-> 0]
    /\ last = [op |-> "NewSpatialGrid", panic |-> MakePanics(x, y)]
    /\ search = NoSearch
    /\ weighted = NoSearch
    /\ threads = [t \in Threads |-> NoCall]

\* Insert as in the revision that adds the occupant to every chunk its bounds touch.
InsertNodesOverlapped(nodes, val, bounds, multiplier) ==
    LET mn == Location(MinPoint(bounds).X, MinPoint(bounds).Y)
        mx == Location(MaxPoint(bounds).X, MaxPoint(bounds).Y)
    IN  [x \in DOMAIN nodes |-> [y \in DOMAIN nodes[x] |->
            IF x \in mn[1]..mx[1] /\ y \in mn[2]..mx[2]
            THEN NodeInsert(nodes[x][y], val, bounds, multiplier)
            ELSE nodes[x][y]]]

\* Insert with the cell of the reference position taken by rounding the
\* quotient (the conversion of the revision without weights) while the other
\* operations truncate it.
InsertNodesRounded(nodes, val, bounds, multiplier) ==
    LET loc == <<ClampIndex(RoundDiv(bounds.X, ChunkSize), SizeX),
                 ClampIndex(RoundDiv(bounds.Y, ChunkSize), SizeY)>>
    IN  [nodes EXCEPT ![loc[1]][loc[2]] = NodeInsert(@, val, bounds, multiplier)]

InsertNodes(nodes, val, bounds, multiplier) ==
    LET loc == Location(bounds.X, bounds.Y)
    IN  [nodes EXCEPT ![loc[1]][loc[2]] = NodeInsert(@, val, bounds, multiplier)]

DeleteNodes(nodes, val, bounds) ==
    LET loc == Location(bounds.X, bounds.Y)
    IN  [nodes EXCEPT ![loc[1]][loc[2]] = NodeDelete(@, val)]

\* The grid and its counter hold fewer than n records: the cap the callers
\* put on Insert (one Delete can remove several records for one decrement, so
\* the counter is capped as well).
Room(n) == NumRecords(Nodes) < n /\ itemCount < n

Insert(val, bounds, multiplier) ==
    /\ Unlocked
    /\ Nodes' = InsertNodes(Nodes, val, bounds, multiplier)
    /\ itemCount' = itemCount + 1
    /\ last' = [op |-> "Insert", val |-> val, loc |-> Location(bounds.X, bounds.Y),
                prev |-> Nodes[Location(bounds.X, bounds.Y)[1]][Location(bounds.X, bounds.Y)[2]].weight]
    /\ UNCHANGED <<SizeX, SizeY, ChunkSize, nodesMu, search, weighted, threads>>

Delete(val, bounds) ==
    /\ Unlocked
    /\ itemCount > -MaxUnderflow
    /\ Nodes' = DeleteNodes(Nodes, val, bounds)
    /\ itemCount' = itemCount - 1
    /\ last' = [op |-> "Delete"]
    /\ UNCHANGED <<SizeX, SizeY, ChunkSize, nodesMu, search, weighted, threads>>

Update(val, oldBounds, newBounds, multiplier) ==
    /\ Unlocked
    /\ itemCount > -MaxUnderflow
    /\ NumRecords(DeleteNodes(Nodes, val, oldBounds)) < MaxItems
    /\ Nodes' = InsertNodes(DeleteNodes(Nodes, val, oldBounds), val, newBounds, multiplier)
    /\ itemCount' = (itemCount - 1) + 1
    /\ last' = [op |-> "Update"]
    /\ UNCHANGED <<SizeX, SizeY, ChunkSize, nodesMu, search, weighted, threads>>

\* Drop as in the revision that builds the fresh nodes and never stores them.
DropDiscarded ==
    /\ Unlocked
    /\ Nodes' = Nodes
    /\ itemCount' = itemCount
    /\ last' = [op |-> "Drop", records |-> NumRecords(Nodes),
                weights |-> {Nodes[c[1]][c[2]].weight : c \in Cells}]
    /\ UNCHANGED <<SizeX, SizeY, ChunkSize, nodesMu, search, weighted, threads>>

Drop ==
    /\ Unlocked
    /\ Nodes' = FreshNodes(SizeX, SizeY, ChunkSize)
    /\ itemCount' = 0
    /\ last' = [op |-> "Drop", records |-> NumRecords(Nodes),
                weights |-> {Nodes[c[1]][c[2]].weight : c \in Cells}]
    /\ UNCHANGED <<SizeX, SizeY, ChunkSize, nodesMu, search, weighted, threads>>

\* The keys of FindNear's set with the loops' bounds exclusive (x < xn, y < yn).
FindNearKeysExclusive(bounds) ==
    LET mn == Location(MinPoint(bounds).X, MinPoint(bounds).Y)
        mx == Location(MaxPoint(bounds).X, MaxPoint(bounds).Y)
    IN  UNION { {Nodes[x][y].Items[i].value : i \in 1..Len(Nodes[x][y].Items)} :
                  x \in mn[1]..(mx[1] - 1), y \in mn[2]..(mx[2] - 1) }

\* The keys of the set FindNear fills: the value of every item of every node
\* of the loops x = xMinIndex..xMaxIndex, y = yMinIndex..yMaxIndex.
FindNearKeys(bounds) ==
    LET mn == Location(MinPoint(bounds).X, MinPoint(bounds).Y)
        mx == Location(MaxPoint(bounds).X, MaxPoint(bounds).Y)
    IN  UNION { {Nodes[x][y].Items[i].value : i \in 1..Len(Nodes[x][y].Items)} :
                  x \in mn[1]..mx[1], y \in mn[2]..mx[2] }

\* maps.Keys: the keys as a slice, in an order the map iteration chooses.
Keys(set) ==
    {s \in [1..Cardinality(set) -> set] : \A i, j \in DOMAIN s : i # j => s[i] # s[j]}

FindNear(bounds) ==
    /\ nodesMu.writer = FALSE
    /\ \E ret \in Keys(FindNearKeys(bounds)) :
          last' = [op |-> "FindNear", bounds |-> bounds, ret |-> ret]
    /\ UNCHANGED <<grid, nodesMu, search, weighted, threads>>

LocationCall(x, y) ==
    /\ last' = [op |-> "Location", x |-> x, y |-> y, ret |-> Location(x, y)]
    /\ UNCHANGED <<grid, nodesMu, search, weighted, threads>>

----------------------------------------------------------------------------
(* Search: one step per pass through the head of a loop *)

directions == << <<0, 1>>, <<0, -1>>, <<1, 0>>, <<-1, 0>> >>

Node(x, y) ==
    [Items |-> Nodes[x][y].Items, x |-> Nodes[x][y].x, y |-> Nodes[x][y].y,
     bounds |-> Nodes[x][y].bounds, weight |-> Nodes[x][y].weight]

NodeAtPosition(x, y) == Node(Location(x, y)[1], Location(x, y)[2])

\* The loop of Edges with the upper tests one too early (>= Size - 1).
RECURSIVE EdgesFromShort(_, _, _)
EdgesFromShort(sgn, dirs, d) ==
    IF d > Len(dirs) THEN <<>>
    ELSE LET nextX == sgn.x + dirs[d][1]
             nextY == sgn.y + dirs[d][2]
         IN  IF nextX < 0 \/ nextX >= SizeX - 1 THEN EdgesFromShort(sgn, dirs, d + 1)
             ELSE IF nextY < 0 \/ nextY >= SizeY - 1 THEN EdgesFromShort(sgn, dirs, d + 1)
             ELSE <<Node(nextX, nextY)>> \o EdgesFromShort(sgn, dirs, d + 1)

RECURSIVE EdgesFrom(_, _, _)
EdgesFrom(sgn, dirs, d) ==
    IF d > Len(dirs) THEN <<>>
    ELSE LET nextX == sgn.x + dirs[d][1]
             nextY == sgn.y + dirs[d][2]
         IN  IF nextX < 0 \/ nextX >= SizeX THEN EdgesFrom(sgn, dirs, d + 1)
             ELSE IF nextY < 0 \/ nextY >= SizeY THEN EdgesFrom(sgn, dirs, d + 1)
             ELSE <<Node(nextX, nextY)>> \o EdgesFrom(sgn, dirs, d + 1)

\* Edges with the four diagonal directions added to the table.
EdgesDiagonal(sgn) ==
    EdgesFrom(sgn, directions \o << <<1, 1>>, <<1, -1>>, <<-1, 1>>, <<-1, -1>> >>, 1)

Edges(sgn) == EdgesFrom(sgn, directions, 1)

SearchReturn(err) ==
    /\ search' = [search EXCEPT !.pc = "done", !.ret = err]
    /\ nodesMu' = [nodesMu EXCEPT !.readers = @ - 1]

\* Entry without the RLock: the search runs with the lock free.
SearchCallUnlocked(x, y, maxDepth) ==
    /\ search.pc \in {"idle", "done"}
    /\ nodesMu' = [nodesMu EXCEPT !.readers = @ + 0]
    /\ search' = [pc |-> "outer", x |-> x, y |-> y, maxDepth |-> maxDepth,
                  queue |-> <<NodeAtPosition(x, y)>>, visited |-> {},
                  currentDepth |-> 0, nodesAtDepth |-> 0, i |-> 0,
                  calls |-> <<>>, ret |-> "running"]
    /\ UNCHANGED <<grid, last, weighted, threads>>

\* Entry: RLock, the start node, the queue holding it.
SearchCall(x, y, maxDepth) ==
    /\ search.pc \in {"idle", "done"}
    /\ nodesMu.writer = FALSE
    /\ nodesMu' = [nodesMu EXCEPT !.readers = @ + 1]
    /\ search' = [pc |-> "outer", x |-> x, y |-> y, maxDepth |-> maxDepth,
                  queue |-> <<NodeAtPosition(x, y)>>, visited |-> {},
                  currentDepth |-> 0, nodesAtDepth |-> 0, i |-> 0,
                  calls |-> <<>>, ret |-> "running"]
    /\ UNCHANGED <<grid, last, weighted, threads>>

\* The head of the outer loop with the depth test dropped from the loop: the
\* loop ends when the depth runs out and the search returns nil.
SearchOuterSilent ==
    /\ search.pc = "outer"
    /\ IF Len(search.queue) = 0 \/ search.currentDepth > search.maxDepth
       THEN SearchReturn("nil")
       ELSE /\ search' = [search EXCEPT !.pc = "inner",
                                        !.nodesAtDepth = Len(search.queue), !.i = 0]
            /\ UNCHANGED nodesMu
    /\ UNCHANGED <<grid, last, weighted, threads>>

\* The head of the outer loop: for queue.Len() > 0 { if currentDepth > maxDepth ...
SearchOuter ==
    /\ search.pc = "outer"
    /\ IF Len(search.queue) = 0 THEN SearchReturn("nil")
       ELSE IF search.currentDepth > search.maxDepth THEN SearchReturn("ErrMaxDepthReached")
       ELSE /\ search' = [search EXCEPT !.pc = "inner",
                                        !.nodesAtDepth = Len(search.queue), !.i = 0]
            /\ UNCHANGED nodesMu
    /\ UNCHANGED <<grid, last, weighted, threads>>

\* The inner loop with the visitor's result tested after the edges are
\* enqueued instead of before.
SearchInnerLate(err) ==
    /\ search.pc = "inner"
    /\ IF search.i >= search.nodesAtDepth
       THEN /\ search' = [search EXCEPT !.pc = "outer", !.currentDepth = @ + 1]
            /\ UNCHANGED nodesMu
       ELSE LET currentNode == Head(search.queue)
                index == <<currentNode.x, currentNode.y>>
                call == [x |-> currentNode.x, y |-> currentNode.y,
                         values |-> Values(currentNode)]
            IN  IF index \in search.visited
                THEN /\ search' = [search EXCEPT !.queue = Tail(@), !.i = @ + 1]
                     /\ UNCHANGED nodesMu
                ELSE IF err # "nil"
                THEN /\ search' = [search EXCEPT !.pc = "done", !.ret = err,
                                                 !.queue = Tail(@) \o Edges(currentNode),
                                                 !.visited = @ \cup {index},
                                                 !.calls = Append(@, call)]
                     /\ nodesMu' = [nodesMu EXCEPT !.readers = @ - 1]
                ELSE /\ search' = [search EXCEPT !.queue = Tail(@) \o Edges(currentNode),
                                                 !.visited = @ \cup {index},
                                                 !.calls = Append(@, call),
                                                 !.i = @ + 1]
                     /\ UNCHANGED nodesMu
    /\ UNCHANGED <<grid, last, weighted, threads>>

\* The head of the inner loop, and one pass of its body; err is what the
\* visitor returns if this pass invokes it.
SearchInner(err) ==
    /\ search.pc = "inner"
    /\ IF search.i >= search.nodesAtDepth
       THEN /\ search' = [search EXCEPT !.pc = "outer", !.currentDepth = @ + 1]
            /\ UNCHANGED nodesMu
       ELSE LET currentNode == Head(search.queue)
                index == <<currentNode.x, currentNode.y>>
                call == [x |-> currentNode.x, y |-> currentNode.y,
                         values |-> Values(currentNode)]
            IN  IF index \in search.visited
                THEN /\ search' = [search EXCEPT !.queue = Tail(@), !.i = @ + 1]
                     /\ UNCHANGED nodesMu
                ELSE IF err # "nil"
                THEN /\ search' = [search EXCEPT !.pc = "done", !.ret = err,
                                                 !.queue = Tail(@),
                                                 !.visited = @ \cup {index},
                                                 !.calls = Append(@, call)]
                     /\ nodesMu' = [nodesMu EXCEPT !.readers = @ - 1]
                ELSE /\ search' = [search EXCEPT !.queue = Tail(@) \o Edges(currentNode),
                                                 !.visited = @ \cup {index},
                                                 !.calls = Append(@, call),
                                                 !.i = @ + 1]
                     /\ UNCHANGED nodesMu
    /\ UNCHANGED <<grid, last, weighted, threads>>

----------------------------------------------------------------------------
(* WeightedSearch: one step per pass through the head of the main loop *)

\* map[index]V: a function on the keys present; a missing key reads as the
\* zero value.
Put(m, key, v) == [c \in (DOMAIN m) \cup {key} |-> IF c = key THEN v ELSE m[c]]

Get(m, key, zero) == IF key \in DOMAIN m THEN m[key] ELSE zero

\* The distance with its sign turned: the farthest cell first.
heuristicAway(from, to) == F(-(Abs(from.x - to.x) + Abs(from.y - to.y)))

heuristic(from, to) == F(Abs(from.x - to.x) + Abs(from.y - to.y))

\* The priority queue, lowest priority first: a bag of entries.  A dequeue
\* takes an entry no other entry is below, so that entries of equal priority,
\* and entries whose priority is NaN, leave in any order.
Enqueue(pq, sgn, priority) ==
    pq (+) SetToBag({[x |-> sgn.x, y |-> sgn.y, priority |-> priority]})

DequeueChoices(pq) ==
    {e \in BagToSet(pq) : \A f \in BagToSet(pq) : ~FLess(f.priority, e.priority)}

Remove(pq, e) == pq (-) SetToBag({e})

\* for i := 0; i < len(edges); i++ { ... } over the maps and the queue
RECURSIVE Relax(_, _, _, _, _)
Relax(acc, currentNode, endNode, edges, i) ==
    IF i > Len(edges) THEN acc
    ELSE LET edge == edges[i]
             key == <<edge.x, edge.y>>
             newCost == FAdd(Get(acc.costs, <<currentNode.x, currentNode.y>>, F(0)),
                             edge.weight)
         IN  IF IsInf1(newCost) THEN Relax(acc, currentNode, endNode, edges, i + 1)
             ELSE IF key \in DOMAIN acc.costs /\ FGeq(newCost, acc.costs[key])
             THEN Relax(acc, currentNode, endNode, edges, i + 1)
             ELSE Relax([costs |-> Put(acc.costs, key, newCost),
                         pq |-> Enqueue(acc.pq, edge,
                                        FAdd(newCost, heuristic(edge, endNode))),
                         cameFrom |-> Put(acc.cameFrom, key,
                                          <<currentNode.x, currentNode.y>>)],
                        currentNode, endNode, edges, i + 1)

\* The backward walk as a loop that tests after its body: currentNode is
\* appended before it is compared with startNode.
RECURSIVE WalkBackAfter(_, _, _, _)
WalkBackAfter(cameFrom, currentNode, startNode, fuel) ==
    IF fuel = 0 THEN <<>>
    ELSE LET next == Get(cameFrom, currentNode, <<0, 0>>)
             rest == IF next = startNode THEN <<startNode>>
                     ELSE WalkBackAfter(cameFrom, next, startNode, fuel - 1)
         IN  IF rest = <<>> THEN <<>> ELSE <<currentNode>> \o rest

\* The backward walk over cameFrom, from currentNode to startNode: the cells
\* appended to pathNodes, or <<>> when the walk does not reach startNode
\* within fuel steps (it then runs round a cycle of cameFrom for ever).
RECURSIVE WalkBack(_, _, _, _)
WalkBack(cameFrom, currentNode, startNode, fuel) ==
    IF currentNode = startNode THEN <<startNode>>
    ELSE IF fuel = 0 THEN <<>>
    ELSE LET rest == WalkBack(cameFrom, Get(cameFrom, currentNode, <<0, 0>>),
                              startNode, fuel - 1)
         IN  IF rest = <<>> THEN <<>> ELSE <<currentNode>> \o rest

Reverse(seq) == [i \in 1..Len(seq) |-> seq[Len(seq) + 1 - i]]

\* The waypoint of a cell taken at the minimum corner of its chunk.
CentreMin(c) == <<c[1] * ChunkSize, c[2] * ChunkSize>>

Centre(c) == <<(c[1] * ChunkSize) + (ChunkSize \div 2), (c[2] * ChunkSize) + (ChunkSize \div 2)>>

WeightedReturn(path, err) ==
    /\ weighted' = [weighted EXCEPT !.pc = "done", !.path = path, !.ret = err]
    /\ nodesMu' = [nodesMu EXCEPT !.readers = @ - 1]

\* Entry: RLock, the start and end nodes, the maps and the queue.
WeightedSearch(start, end, maxDepth) ==
    /\ weighted.pc \in {"idle", "done"}
    /\ nodesMu.writer = FALSE
    /\ nodesMu' = [nodesMu EXCEPT !.readers = @ + 1]
    /\ LET startNode == NodeAtPosition(start[1], start[2])
           endNode == NodeAtPosition(end[1], end[2])
           key == <<startNode.x, startNode.y>>
       IN  weighted' = [pc |-> "loop", start |-> start, end |-> end, maxDepth |-> maxDepth,
                        startNode |-> key, endNode |-> <<endNode.x, endNode.y>>,
                        cameFrom |-> [c \in {key} |-> key],
                        costs |-> [c \in {key} |-> F(0)],
                        pq |-> Enqueue(EmptyBag, startNode, F(0)),
                        currentDepth |-> 0, found |-> FALSE,
                        path |-> <<>>, ret |-> "running"]
    /\ last' = [op |-> "WeightedSearch"]
    /\ UNCHANGED <<grid, search, threads>>

\* The main loop with the depth test taken as currentDepth >= maxDepth.
WeightedLoopEager ==
    /\ weighted.pc = "loop"
    /\ IF BagToSet(weighted.pq) = {}
       THEN /\ weighted' = [weighted EXCEPT !.pc = "path"]
            /\ UNCHANGED nodesMu
       ELSE IF weighted.currentDepth >= weighted.maxDepth
       THEN WeightedReturn(<<>>, "ErrMaxDepthReached")
       ELSE \E e \in DequeueChoices(weighted.pq) :
              LET currentNode == Node(e.x, e.y)
                  endNode == Node(weighted.endNode[1], weighted.endNode[2])
                  rest == Remove(weighted.pq, e)
                  acc == Relax([costs |-> weighted.costs, pq |-> rest,
                                cameFrom |-> weighted.cameFrom],
                               currentNode, endNode, Edges(currentNode), 1)
              IN  /\ IF currentNode.x = endNode.x /\ currentNode.y = endNode.y
                     THEN weighted' = [weighted EXCEPT !.pc = "path", !.pq = rest,
                                                       !.found = TRUE]
                     ELSE weighted' = [weighted EXCEPT !.costs = acc.costs,
                                                       !.pq = acc.pq,
                                                       !.cameFrom = acc.cameFrom,
                                                       !.currentDepth = @ + 1]
                  /\ UNCHANGED nodesMu
    /\ UNCHANGED <<grid, last, search, threads>>

\* The head of the main loop and one pass of its body; the pass that
\* dequeues the end cell breaks out of the loop.
WeightedLoop ==
    /\ weighted.pc = "loop"
    /\ IF BagToSet(weighted.pq) = {}
       THEN /\ weighted' = [weighted EXCEPT !.pc = "path"]
            /\ UNCHANGED nodesMu
       ELSE IF weighted.currentDepth > weighted.maxDepth
       THEN WeightedReturn(<<>>, "ErrMaxDepthReached")
       ELSE \E e \in DequeueChoices(weighted.pq) :
              LET currentNode == Node(e.x, e.y)
                  endNode == Node(weighted.endNode[1], weighted.endNode[2])
                  rest == Remove(weighted.pq, e)
                  acc == Relax([costs |-> weighted.costs, pq |-> rest,
                                cameFrom |-> weighted.cameFrom],
                               currentNode, endNode, Edges(currentNode), 1)
              IN  /\ IF currentNode.x = endNode.x /\ currentNode.y = endNode.y
                     THEN weighted' = [weighted EXCEPT !.pc = "path", !.pq = rest,
                                                       !.found = TRUE]
                     ELSE weighted' = [weighted EXCEPT !.costs = acc.costs,
                                                       !.pq = acc.pq,
                                                       !.cameFrom = acc.cameFrom,
                                                       !.currentDepth = @ + 1]
                  /\ UNCHANGED nodesMu
    /\ UNCHANGED <<grid, last, search, threads>>

\* The end of the call with a missing predecessor reported as an empty path
\* and no error.
WeightedPathSilent ==
    /\ weighted.pc = "path"
    /\ IF weighted.endNode \notin DOMAIN weighted.cameFrom
       THEN WeightedReturn(<<>>, "nil")
       ELSE LET pathNodes == WalkBack(weighted.cameFrom, weighted.endNode,
                                      weighted.startNode,
                                      Cardinality(DOMAIN weighted.cameFrom) + 1)
            IN  IF pathNodes = <<>>
                THEN /\ weighted' = [weighted EXCEPT !.pc = "walk"]
                     /\ UNCHANGED nodesMu
                ELSE WeightedReturn([k \in 1..Len(pathNodes) |-> Centre(Reverse(pathNodes)[k])],
                                    "nil")
    /\ UNCHANGED <<grid, last, search, threads>>

\* After the loop: ErrPathNotFound when the end cell has no predecessor,
\* otherwise the backward walk and the waypoints.  A walk caught in a cycle
\* never returns: the call stays at "walk" with the shared lock held.
WeightedPath ==
    /\ weighted.pc = "path"
    /\ IF weighted.endNode \notin DOMAIN weighted.cameFrom
       THEN WeightedReturn(<<>>, "ErrPathNotFound")
       ELSE LET pathNodes == WalkBack(weighted.cameFrom, weighted.endNode,
                                      weighted.startNode,
                                      Cardinality(DOMAIN weighted.cameFrom) + 1)
            IN  IF pathNodes = <<>>
                THEN /\ weighted' = [weighted EXCEPT !.pc = "walk"]
                     /\ UNCHANGED nodesMu
                ELSE WeightedReturn([k \in 1..Len(pathNodes) |-> Centre(Reverse(pathNodes)[k])],
                                    "nil")
    /\ UNCHANGED <<grid, last, search, threads>>

----------------------------------------------------------------------------
(* Goroutines: the operations lock by lock.  A mutating call is the steps
   Lock, the store to Nodes, the store to itemCount with the deferred Unlock;
   a reading call is RLock and the read with the deferred RUnlock; Size is
   one read without a lock; Update is the call of Delete, then of Insert. *)

Between(t) == threads[t].pc \in {"idle", "done"}

Pending(ops) ==
    Cardinality({t \in Threads : ~Between(t) /\ threads[t].call \in ops})

Frame(pc, call, op, val, bounds, newBounds, multiplier) ==
    [pc |-> pc, call |-> call, op |-> op, val |-> val, bounds |-> bounds,
     newBounds |-> newBounds, multiplier |-> multiplier]

Returned1(t, ret) ==
    threads' = [threads EXCEPT ![t] = [pc |-> "done", call |-> threads[t].call, ret |-> ret]]

GoInsert(t, val, bounds, multiplier) ==
    /\ Between(t)
    /\ NumRecords(Nodes) + Pending({"Insert", "Update"}) < MaxItems
    /\ itemCount + Pending({"Insert", "Update"}) < MaxItems
    /\ threads' = [threads EXCEPT ![t] =
                      Frame("Lock", "Insert", "Insert", val, bounds, bounds, multiplier)]
    /\ UNCHANGED <<grid, nodesMu, last, search, weighted>>

GoDelete(t, val, bounds) ==
    /\ Between(t)
    /\ itemCount - Pending({"Delete"}) > -MaxUnderflow
    /\ threads' = [threads EXCEPT ![t] =
                      Frame("Lock", "Delete", "Delete", val, bounds, bounds, F(0))]
    /\ UNCHANGED <<grid, nodesMu, last, search, weighted>>

\* Update entering sg.Insert at once, the call of sg.Delete left out.
GoUpdateInsertOnly(t, val, oldBounds, newBounds, multiplier) ==
    /\ Between(t)
    /\ NumRecords(Nodes) + Pending({"Insert", "Update"}) < MaxItems
    /\ itemCount + Pending({"Insert", "Update"}) < MaxItems
    /\ itemCount - Pending({"Delete"}) > -MaxUnderflow
    /\ threads' = [threads EXCEPT ![t] =
                      Frame("Lock", "Update", "Insert", val, newBounds, newBounds, multiplier)]
    /\ UNCHANGED <<grid, nodesMu, last, search, weighted>>

GoUpdate(t, val, oldBounds, newBounds, multiplier) ==
    /\ Between(t)
    /\ NumRecords(Nodes) + Pending({"Insert", "Update"}) < MaxItems
    /\ itemCount + Pending({"Insert", "Update"}) < MaxItems
    /\ itemCount - Pending({"Delete"}) > -MaxUnderflow
    /\ threads' = [threads EXCEPT ![t] =
                      Frame("Lock", "Update", "Delete", val, oldBounds, newBounds, multiplier)]
    /\ UNCHANGED <<grid, nodesMu, last, search, weighted>>

GoDrop(t) ==
    /\ Between(t)
    /\ threads' = [threads EXCEPT ![t] =
                      Frame("Lock", "Drop", "Drop", 0, NewRectangle(0, 0, 0, 0),
                            NewRectangle(0, 0, 0, 0), F(0))]
    /\ UNCHANGED <<grid, nodesMu, last, search, weighted>>

\* sg.nodesMu.Lock()
Lock(t) ==
    /\ threads[t].pc = "Lock"
    /\ Unlocked
    /\ nodesMu' = [nodesMu EXCEPT !.writer = TRUE]
    /\ threads' = [threads EXCEPT ![t].pc = "Nodes"]
    /\ UNCHANGED <<grid, last, search, weighted>>

\* sg.Nodes[x][y] = ... (Insert, Delete), sg.Nodes = nodes (Drop)
StoreNodes(t) ==
    /\ threads[t].pc = "Nodes"
    /\ Nodes' = CASE threads[t].op = "Insert" ->
                       InsertNodes(Nodes, threads[t].val, threads[t].bounds,
                                   threads[t].multiplier)
                   [] threads[t].op = "Delete" ->
                       DeleteNodes(Nodes, threads[t].val, threads[t].bounds)
                   [] OTHER -> FreshNodes(SizeX, SizeY, ChunkSize)
    /\ threads' = [threads EXCEPT ![t].pc = "itemCount"]
    /\ UNCHANGED <<SizeX, SizeY, ChunkSize, itemCount, nodesMu, last, search, weighted>>

\* sg.itemCount++ / -- / = 0, the deferred Unlock and the return; Update
\* goes on from its Delete to its Insert.
StoreCount(t) ==
    /\ threads[t].pc = "itemCount"
    /\ itemCount' = CASE threads[t].op = "Insert" -> itemCount + 1
                       [] threads[t].op = "Delete" -> itemCount - 1
                       [] OTHER -> 0
    /\ nodesMu' = [nodesMu EXCEPT !.writer = FALSE]
    /\ IF threads[t].call = "Update" /\ threads[t].op = "Delete"
       THEN threads' = [threads EXCEPT ![t] =
                           Frame("Lock", "Update", "Insert", threads[t].val,
                                 threads[t].newBounds, threads[t].newBounds,
                                 threads[t].multiplier)]
       ELSE Returned1(t, "")
    /\ UNCHANGED <<SizeX, SizeY, ChunkSize, Nodes, last, search, weighted>>

GoFindNear(t, bounds) ==
    /\ Between(t)
    /\ threads' = [threads EXCEPT ![t] =
                      Frame("RLock", "FindNear", "FindNear", 0, bounds, bounds, F(0))]
    /\ UNCHANGED <<grid, nodesMu, last, search, weighted>>

GoGetItemsAtLocation(t, x, y) ==
    /\ Between(t)
    /\ threads' = [threads EXCEPT ![t] =
                      Frame("RLock", "GetItemsAtLocation", "GetItemsAtLocation", 0,
                            <<x, y>>, <<x, y>>, F(0))]
    /\ UNCHANGED <<grid, nodesMu, last, search, weighted>>

GoGetLocationWeight(t, x, y) ==
    /\ Between(t)
    /\ threads' = [threads EXCEPT ![t] =
                      Frame("RLock", "GetLocationWeight", "GetLocationWeight", 0,
                            <<x, y>>, <<x, y>>, F(0))]
    /\ UNCHANGED <<grid, nodesMu, last, search, weighted>>

\* sg.nodesMu.RLock()
RLock(t) ==
    /\ threads[t].pc = "RLock"
    /\ nodesMu.writer = FALSE
    /\ nodesMu' = [nodesMu EXCEPT !.readers = @ + 1]
    /\ threads' = [threads EXCEPT ![t].pc = "Read"]
    /\ UNCHANGED <<grid, last, search, weighted>>

\* What GetItemsAtLocation and GetLocationWeight leave with their caller:
\* the indices it passed and the value returned, or the panic of an index out
\* of range
ReturnedAt(t, c, panic, ret) ==
    threads' = [threads EXCEPT ![t] = [pc |-> "done", call |-> threads[t].call,
                                       bounds |-> c, panic |-> panic, ret |-> ret]]

\* The body of a reading call, the deferred RUnlock and the return
Read(t) ==
    /\ threads[t].pc = "Read"
    /\ nodesMu' = [nodesMu EXCEPT !.readers = @ - 1]
    /\ CASE threads[t].op = "FindNear" ->
                \E ret \in Keys(FindNearKeys(threads[t].bounds)) : Returned1(t, ret)
         [] threads[t].bounds \notin Cells ->
                ReturnedAt(t, threads[t].bounds, TRUE, <<>>)
         [] threads[t].op = "GetItemsAtLocation" ->
                ReturnedAt(t, threads[t].bounds, FALSE,
                           Values(Nodes[threads[t].bounds[1]][threads[t].bounds[2]]))
         [] OTHER ->
                ReturnedAt(t, threads[t].bounds, FALSE,
                           Nodes[threads[t].bounds[1]][threads[t].bounds[2]].weight)
    /\ UNCHANGED <<grid, last, search, weighted>>

\* The caller holds a slice returned by GetItemsAtLocation
HasItems(t) ==
    threads[t].pc = "done" /\ threads[t].call = "GetItemsAtLocation" /\ ~threads[t].panic

\* The caller's store to element i of the slice, had Values returned a slice
\* over the storage of the node's items: the store reaches the node.
StoreReturnedShared(t, i, v) ==
    /\ HasItems(t)
    /\ i \in 1..Len(threads[t].ret)
    /\ threads[t].ret[i] # v
    /\ threads' = [threads EXCEPT ![t].ret[i] = v]
    /\ Nodes' = [Nodes EXCEPT ![threads[t].bounds[1]][threads[t].bounds[2]].Items[i].value = v]
    /\ UNCHANGED <<SizeX, SizeY, ChunkSize, itemCount, nodesMu, last, search, weighted>>

\* The caller's store to element i of the slice GetItemsAtLocation returned:
\* Values fills a slice it has made, so the store stays with the caller.
StoreReturned(t, i, v) ==
    /\ HasItems(t)
    /\ i \in 1..Len(threads[t].ret)
    /\ threads[t].ret[i] # v
    /\ threads' = [threads EXCEPT ![t].ret[i] = v]
    /\ UNCHANGED <<grid, nodesMu, last, search, weighted>>

\* Size: return sg.itemCount, no lock taken
GoSize(t) ==
    /\ Between(t)
    /\ threads' = [threads EXCEPT ![t] = [pc |-> "done", call |-> "Size", ret |-> itemCount]]
    /\ UNCHANGED <<grid, nodesMu, last, search, weighted>>

----------------------------------------------------------------------------
(* The multi-cell revision (spatial_grid.go): a node is its coordinates and
   the values it holds; Insert and Delete go over every chunk between the
   chunks of the two corners of the bounds; there is no weight and no item
   count. *)

\* int(math.Floor(x / ChunkSize)), then max(.., 0), then min(.., Size - 1)
MultiLocation(x, y) ==
    <<Min(Max(x \div ChunkSize, 0), SizeX - 1), Min(Max(y \div ChunkSize, 0), SizeY - 1)>>

MultiFreshNodes(sx, sy) ==
    [iX \in 0..(sx - 1) |-> [iY \in 0..(sy - 1) |-> [x |-> iX, y |-> iY, items |-> <<>>]]]

MultiNewSpatialGrid(x, y, size) ==
    /\ SizeX = x
    /\ SizeY = y
    /\ ChunkSize = size
    /\ Nodes = MultiFreshNodes(x, y)
    /\ itemCount = 0
    /\ nodesMu = [writer |-> FALSE, readers |-> 0]
    /\ last = [op |-> "NewSpatialGrid", panic |-> FALSE]
    /\ search = NoSearch
    /\ weighted = NoSearch
    /\ threads = [t \in Threads |-> NoCall]

MultiNodeInsert(sgn, item) == [sgn EXCEPT !.items = Append(@, item)]

\* The loop of spatialGridNode.Delete from (0-based) index i on
RECURSIVE MultiDeleteFrom(_, _, _)
MultiDeleteFrom(sgn, item, i) ==
    IF i >= Len(sgn.items) THEN sgn
    ELSE IF sgn.items[i + 1] # item THEN MultiDeleteFrom(sgn, item, i + 1)
    ELSE LET n == Len(sgn.items)
             moved == [sgn.items EXCEPT ![i + 1] = sgn.items[n]]
         IN  MultiDeleteFrom([sgn EXCEPT !.items = SubSeq(moved, 1, n - 1)], item, i + 1)

MultiNodeDelete(sgn, item) == MultiDeleteFrom(sgn, item, 0)

MultiInsertNodes(nodes, val, bounds) ==
    LET mn == MultiLocation(MinPoint(bounds).X, MinPoint(bounds).Y)
        mx == MultiLocation(MaxPoint(bounds).X, MaxPoint(bounds).Y)
    IN  [x \in DOMAIN nodes |-> [y \in DOMAIN nodes[x] |->
            IF x \in mn[1]..mx[1] /\ y \in mn[2]..mx[2]
            THEN MultiNodeInsert(nodes[x][y], val)
            ELSE nodes[x][y]]]

\* Delete looking only in the chunk of the reference position, as the
\* single-cell revision does.
MultiDeleteNodesSingle(nodes, val, bounds) ==
    LET loc == MultiLocation(bounds.X, bounds.Y)
    IN  [nodes EXCEPT ![loc[1]][loc[2]] = MultiNodeDelete(@, val)]

MultiDeleteNodes(nodes, val, bounds) ==
    LET mn == MultiLocation(MinPoint(bounds).X, MinPoint(bounds).Y)
        mx == MultiLocation(MaxPoint(bounds).X, MaxPoint(bounds).Y)
    IN  [x \in DOMAIN nodes |-> [y \in DOMAIN nodes[x] |->
            IF x \in mn[1]..mx[1] /\ y \in mn[2]..mx[2]
            THEN MultiNodeDelete(nodes[x][y], val)
            ELSE nodes[x][y]]]

\* No chunk holds n values yet: the cap the callers put on Insert
MultiRoom(n) == \A c \in Cells : Len(Nodes[c[1]][c[2]].items) < n

\* last keeps the call; for Insert the nodes it found, and for a Delete
\* that comes right after the Insert of the same value and bounds, the
\* nodes that Insert found
MultiInsert(val, bounds) ==
    /\ Unlocked
    /\ Nodes' = MultiInsertNodes(Nodes, val, bounds)
    /\ last' = [op |-> "Insert", val |-> val, bounds |-> bounds, before |-> Nodes]
    /\ UNCHANGED <<SizeX, SizeY, ChunkSize, itemCount, nodesMu, search, weighted, threads>>

MultiDelete(val, bounds) ==
    /\ Unlocked
    /\ Nodes' = MultiDeleteNodes(Nodes, val, bounds)
    /\ LET after == last.op = "Insert" /\ last.val = val /\ last.bounds = bounds
       IN  last' = [op |-> "Delete", val |-> val, bounds |-> bounds, after |-> after,
                    before |-> IF after THEN last.before ELSE <<>>]
    /\ UNCHANGED <<SizeX, SizeY, ChunkSize, itemCount, nodesMu, search, weighted, threads>>

MultiDrop ==
    /\ Unlocked
    /\ Nodes' = MultiFreshNodes(SizeX, SizeY)
    /\ last' = [op |-> "Drop"]
    /\ UNCHANGED <<SizeX, SizeY, ChunkSize, itemCount, nodesMu, search, weighted, threads>>

----------------------------------------------------------------------------
(* Search as a function of its arguments, for a visitor that never fails *)

\* The inner loop: nodesAtDepth dequeues; a node not yet visited is marked
\* and its edges are enqueued.
RECURSIVE FloodLevel(_, _, _)
FloodLevel(queue, visited, nodesAtDepth) ==
    IF nodesAtDepth = 0 THEN [queue |-> queue, visited |-> visited]
    ELSE LET currentNode == Head(queue)
             index == <<currentNode.x, currentNode.y>>
         IN  IF index \in visited
             THEN FloodLevel(Tail(queue), visited, nodesAtDepth - 1)
             ELSE FloodLevel(Tail(queue) \o Edges(currentNode), visited \cup {index},
                             nodesAtDepth - 1)

\* The outer loop with the depth test one level late (>= read as > + 1).
RECURSIVE FloodLate(_, _, _, _)
FloodLate(queue, visited, currentDepth, maxDepth) ==
    IF Len(queue) = 0 THEN [ret |-> "nil", visited |-> visited]
    ELSE IF currentDepth > maxDepth + 1 THEN [ret |-> "ErrMaxDepthReached", visited |-> visited]
    ELSE LET level == FloodLevel(queue, visited, Len(queue))
         IN  FloodLate(level.queue, level.visited, currentDepth + 1, maxDepth)

\* The outer loop
RECURSIVE Flood(_, _, _, _)
Flood(queue, visited, currentDepth, maxDepth) ==
    IF Len(queue) = 0 THEN [ret |-> "nil", visited |-> visited]
    ELSE IF currentDepth > maxDepth THEN [ret |-> "ErrMaxDepthReached", visited |-> visited]
    ELSE LET level == FloodLevel(queue, visited, Len(queue))
         IN  Flood(level.queue, level.visited, currentDepth + 1, maxDepth)

SearchOf(x, y, maxDepth) == Flood(<<NodeAtPosition(x, y)>>, {}, 0, maxDepth)

----------------------------------------------------------------------------
(* Inputs *)

\* Occupant rectangles: the whole chunk centred at (4,4), the last rectangle
\* of Test_spatial_grid_Insert's "single insert", and one off the grid.
InsertBounds ==
    { NewRectangle(4, 4, 8, 8),
      NewRectangle(28, 28, 2, 2),
      NewRectangle(-4, 4, 8, 8) }

UpdateBounds == { NewRectangle(4, 4, 8, 8), NewRectangle(28, 28, 2, 2) }

\* Occupants inserted: each rectangle with multiplier 1, and the whole chunk
\* with an infinite multiplier (an impassable occupant).
Occupants ==
    {<<b, F(1)>> : b \in InsertBounds} \cup {<<NewRectangle(4, 4, 8, 8), PosInf>>}

Init == \E g \in GridShapes : NewSpatialGrid(g[1], g[2], g[3])

Next ==
    \/ \E val \in ValueSet, o \in Occupants : Room(MaxItems) /\ Insert(val, o[1], o[2])
    \/ \E val \in ValueSet, b \in InsertBounds : Delete(val, b)
    \/ \E val \in ValueSet, ob \in UpdateBounds, nb \in UpdateBounds, m \in Multipliers :
            Update(val, ob, nb, m)
    \/ Drop

Spec == Init /\ [][Next]_vars

\* Coordinate to cell mapping on grids of every shape up to MaxSize.
LocationShapes == (1..MaxSize) \X (1..MaxSize) \X {2, 4}

Coords == (-MaxCoord)..MaxCoord

InitLocation == \E g \in LocationShapes : NewSpatialGrid(g[1], g[2], g[3])

NextLocation == \E x \in Coords, y \in Coords : LocationCall(x, y)

SpecLocation == InitLocation /\ [][NextLocation]_vars

\* Range queries over grids filled by Insert and thinned by Delete.
QueryBounds ==
    { NewRectangle(4, 4, 2, 2),
      NewRectangle(8, 8, 8, 8),
      NewRectangle(16, 16, 32, 32),
      NewRectangle(28, 28, 2, 2),
      NewRectangle(-4, 4, 8, 8) }

NextQuery ==
    \/ \E val \in ValueSet, b \in InsertBounds : Room(MaxItems) /\ Insert(val, b, F(1))
    \/ \E val \in ValueSet, b \in InsertBounds : Delete(val, b)
    \/ \E q \in QueryBounds : FindNear(q)

SpecQuery == Init /\ [][NextQuery]_vars

\* Flood searches over grids of every shape up to MaxSearchSize, holding at
\* most MaxSearchItems occupants.
SearchInsertBounds == { NewRectangle(12, 4, 2, 2) }

\* Start coordinates: the centre of every chunk, and a point off the grid.
SearchStarts ==
    {<<(n * 8) + 4, (m * 8) + 4>> : n, m \in 0..(MaxSearchSize - 1)} \cup {<<-4, -4>>}

VisitorResults == {"nil", "ErrVisitor"}

InitSearch == \E g \in SearchShapes : NewSpatialGrid(g[1], g[2], g[3])

NextSearch ==
    \/ \E b \in SearchInsertBounds : Room(MaxSearchItems) /\ Insert(1, b, F(1))
    \/ \E p \in SearchStarts, d \in (-1)..MaxDepth : SearchCall(p[1], p[2], d)
    \/ SearchOuter
    \/ \E err \in VisitorResults : SearchInner(err)

SpecSearch == InitSearch /\ [][NextSearch]_vars

\* Weighted searches over grids of one or two rows, up to MaxPathSize wide,
\* filled before the search is called with at most MaxPathItems occupants:
\* small rectangles centred on a corner of a chunk (overlap 1 with their
\* cell) of multiplier 1 or +Inf, and a rectangle of multiplier +Inf lying
\* below the grid (overlap 0 with its cell (1,0), whose weight becomes
\* 0 * +Inf = NaN).
PathShapes == (1..MaxPathSize) \X (1..2) \X ChunkSizes

PathBounds ==
    { NewRectangle(8, 0, 2, 2), NewRectangle(0, 8, 2, 2), NewRectangle(8, 8, 2, 2) }

PathOccupants ==
    {<<b, m>> : b \in PathBounds, m \in Multipliers}
        \cup {<<NewRectangle(12, -4, 8, 8), PosInf>>}

\* Start coordinates: a point of chunk (0,0) off its centre, and the centre of
\* the opposite corner of the grid.
PathStarts == {<<1, 7>>, Centre(<<SizeX - 1, SizeY - 1>>)}

PathEnds == {Centre(c) : c \in Cells}

PathDepths == {-1, 1, MaxPathDepth}

InitPath == \E g \in PathShapes : NewSpatialGrid(g[1], g[2], g[3])

NextPath ==
    \/ \E o \in PathOccupants :
            /\ weighted.pc = "idle" /\ Room(MaxPathItems)
            /\ Insert(1, o[1], o[2])
    \/ \E start \in PathStarts, end \in PathEnds, d \in PathDepths :
            weighted.pc = "idle" /\ WeightedSearch(start, end, d)
    \/ WeightedLoop
    \/ WeightedPath

SpecPath == InitPath /\ [][NextPath]_vars

\* Two goroutines calling a square grid of MaxSize chunks a side, with one
\* value and two rectangles, in the first and in the last chunk.
ThreadBounds == { NewRectangle(4, 4, 8, 8), NewRectangle(28, 28, 2, 2) }

ThreadQuery == NewRectangle(16, 16, 32, 32)

InitThreads == \E size \in ChunkSizes : NewSpatialGrid(MaxSize, MaxSize, size)

NextThreads ==
    \E t \in Threads :
        \/ \E b \in ThreadBounds : GoInsert(t, 1, b, F(1))
        \/ \E b \in ThreadBounds : GoDelete(t, 1, b)
        \/ \E ob \in ThreadBounds, nb \in ThreadBounds : ob # nb /\ GoUpdate(t, 1, ob, nb, F(1))
        \/ GoDrop(t)
        \/ Lock(t)
        \/ StoreNodes(t)
        \/ StoreCount(t)
        \/ GoFindNear(t, ThreadQuery)
        \/ GoGetItemsAtLocation(t, 0, 0)
        \/ GoGetLocationWeight(t, 0, 0)
        \/ RLock(t)
        \/ Read(t)
        \/ GoSize(t)

SpecThreads == InitThreads /\ [][NextThreads]_vars

\* Weighted searches along grids of one row, up to MaxCorridor wide, whose
\* cell (1,0) may hold the occupant of multiplier +Inf and overlap 0 (weight
\* NaN).
CorridorShapes == (1..MaxCorridor) \X {1} \X ChunkSizes

CorridorOccupants == {<<NewRectangle(12, -4, 8, 8), PosInf>>}

InitCorridor == \E g \in CorridorShapes : NewSpatialGrid(g[1], g[2], g[3])

NextCorridor ==
    \/ \E o \in CorridorOccupants :
            /\ weighted.pc = "idle" /\ Room(1)
            /\ Insert(1, o[1], o[2])
    \/ \E start \in PathStarts, end \in PathEnds, d \in PathDepths :
            weighted.pc = "idle" /\ WeightedSearch(start, end, d)
    \/ WeightedLoop
    \/ WeightedPath

SpecCorridor == InitCorridor /\ [][NextCorridor]_vars

\* Cells of up to MaxDeleteItems records of two values, thinned by Delete.
NextDelete ==
    \/ \E val \in ValueSet, b \in InsertBounds : Room(MaxDeleteItems) /\ Insert(val, b, F(1))
    \/ \E val \in ValueSet, b \in InsertBounds : Delete(val, b)

SpecDelete == Init /\ [][NextDelete]_vars

\* Construction with arguments of either sign, and calls that need no
\* coordinate on the grid it returns.
NewSizes == (-1)..1

NewChunkSizes == {-8, 0, 8}

Constructed == ~(last.op = "NewSpatialGrid" /\ last.panic)

InitNew == \E x \in NewSizes, y \in NewSizes, size \in NewChunkSizes : NewSpatialGrid(x, y, size)

NextNew ==
    \E t \in Threads :
        /\ Constructed
        /\ \/ GoSize(t)
           \/ GoDrop(t)
           \/ Lock(t)
           \/ StoreNodes(t)
           \/ StoreCount(t)

SpecNew == InitNew /\ [][NextNew]_vars

\* One value, inserted once by goroutine a and then moved by it between the
\* first and the last chunk with Update, while goroutine b reads.
NextUpdate ==
    \/ \E b \in ThreadBounds : NumRecords(Nodes) = 0 /\ GoInsert("a", 1, b, F(1))
    \/ \E ob \in ThreadBounds, nb \in ThreadBounds :
            /\ ob # nb
            /\ Holds(Nodes[Location(ob.X, ob.Y)[1]][Location(ob.X, ob.Y)[2]], 1)
            /\ GoUpdate("a", 1, ob, nb, F(1))
    \/ Lock("a")
    \/ StoreNodes("a")
    \/ StoreCount("a")
    \/ GoFindNear("b", ThreadQuery)
    \/ \E c \in {<<0, 0>>, <<SizeX - 1, SizeY - 1>>} : GoGetItemsAtLocation("b", c[1], c[2])
    \/ RLock("b")
    \/ Read("b")
    \/ GoSize("b")

SpecUpdate == InitThreads /\ [][NextUpdate]_vars

\* Goroutine a inserts, deletes and drops while another goroutine runs
\* searches of one kind, flood or weighted, from the first chunk.
LockedStart == <<4, 4>>

LockedDepths == {0, MaxSize}

NextLocked ==
    \/ \E b \in ThreadBounds : GoInsert("a", 1, b, F(1))
    \/ \E b \in ThreadBounds : GoDelete("a", 1, b)
    \/ GoDrop("a")
    \/ Lock("a")
    \/ StoreNodes("a")
    \/ StoreCount("a")
    \/ \E d \in LockedDepths :
            weighted.pc = "idle" /\ SearchCall(LockedStart[1], LockedStart[2], d)
    \/ SearchOuter
    \/ \E err \in VisitorResults : SearchInner(err)
    \/ \E end \in PathEnds, d \in LockedDepths :
            search.pc = "idle" /\ WeightedSearch(LockedStart, end, d)
    \/ WeightedLoop
    \/ WeightedPath

SpecLocked == InitThreads /\ [][NextLocked]_vars

\* One value, inserted once in the first chunk, then moved by the two
\* goroutines at the same time: each calls Update once with the bounds of
\* the insertion as oldBounds, the second while the first has not returned.
MovedFrom == NewRectangle(4, 4, 8, 8)

InUpdate(t) == ~Between(t) /\ threads[t].call = "Update"

NextTwoUpdates ==
    \/ /\ NumRecords(Nodes) = 0
       /\ \A t \in Threads : threads[t].pc = "idle"
       /\ GoInsert("a", 1, MovedFrom, F(1))
    \/ \E t \in Threads, nb \in ThreadBounds :
            /\ threads[t].pc = "idle" \/ (threads[t].pc = "done" /\ threads[t].call = "Insert")
            /\ \/ /\ \A u \in Threads : Between(u)
                  /\ NumRecords(Nodes) = 1 /\ itemCount = 1
                  /\ \A u \in Threads : threads[u].pc = "done" => threads[u].call = "Insert"
               \/ \E u \in Threads \ {t} : InUpdate(u)
            /\ GoUpdate(t, 1, MovedFrom, nb, F(1))
    \/ \E t \in Threads : Lock(t)
    \/ \E t \in Threads : StoreNodes(t)
    \/ \E t \in Threads : StoreCount(t)

SpecTwoUpdates == InitThreads /\ [][NextTwoUpdates]_vars

\* The multi-cell revision on a square grid of MaxSize chunks a side, with
\* rectangles inside one chunk (the last of Test_spatial_grid_Insert), across
\* the corner shared by four chunks, and off the grid.
MultiBounds ==
    { NewRectangle(28, 28, 2, 2),
      NewRectangle(8, 8, 8, 8),
      NewRectangle(-4, 4, 8, 8) }

InitMulti == \E size \in ChunkSizes : MultiNewSpatialGrid(MaxSize, MaxSize, size)

NextMulti ==
    \/ \E val \in ValueSet, b \in MultiBounds : MultiRoom(MaxItems) /\ MultiInsert(val, b)
    \/ \E val \in ValueSet, b \in MultiBounds : MultiDelete(val, b)
    \/ MultiDrop

SpecMulti == InitMulti /\ [][NextMulti]_vars

\* The read-only calls on grids filled by Insert and emptied by Drop: one
\* behaviour makes the calls of goroutine b (Size, FindNear,
\* GetItemsAtLocation and GetLocationWeight with indices on and off the grid,
\* stores to the returned slice), or calls Location, or Search, or
\* WeightedSearch.  The occupants are a whole chunk and an impassable one.
FrameOccupants ==
    {<<NewRectangle(4, 4, 8, 8), F(1)>>, <<NewRectangle(12, 4, 2, 2), PosInf>>}

FrameIndices == Cells \cup {<<SizeX, 0>>, <<0, -1>>}

FrameCoords == {<<-4, 4>>, <<12, 12>>}

Quiet == search.pc = "idle" /\ weighted.pc = "idle" /\ threads["b"].pc = "idle"

NextFrame ==
    \/ \E val \in ValueSet, o \in FrameOccupants : Room(MaxItems) /\ Insert(val, o[1], o[2])
    \/ Drop
    \/ search.pc = "idle" /\ weighted.pc = "idle" /\ GoSize("b")
    \/ search.pc = "idle" /\ weighted.pc = "idle" /\ GoFindNear("b", ThreadQuery)
    \/ \E c \in FrameIndices :
            search.pc = "idle" /\ weighted.pc = "idle" /\ GoGetItemsAtLocation("b", c[1], c[2])
    \/ \E c \in FrameIndices :
            search.pc = "idle" /\ weighted.pc = "idle" /\ GoGetLocationWeight("b", c[1], c[2])
    \/ RLock("b")
    \/ Read("b")
    \/ \E i \in 1..MaxItems, v \in ValueSet : StoreReturned("b", i, v)
    \/ \E p \in FrameCoords : Quiet /\ LocationCall(p[1], p[2])
    \/ \E d \in LockedDepths :
            /\ weighted.pc = "idle" /\ threads["b"].pc = "idle"
            /\ SearchCall(LockedStart[1], LockedStart[2], d)
    \/ SearchOuter
    \/ \E err \in VisitorResults : SearchInner(err)
    \/ \E end \in PathEnds, d \in LockedDepths :
            /\ search.pc = "idle" /\ threads["b"].pc = "idle"
            /\ WeightedSearch(LockedStart, end, d)
    \/ WeightedLoop
    \/ WeightedPath

SpecFrame == InitThreads /\ [][NextFrame]_vars

\* Occupants looked up by their own bounds: rectangles across the corner
\* shared by four chunks, over the whole 2x2 grid, without extent on the line
\* between two chunks, and off the grid on either side.
NearBounds ==
    { NewRectangle(8, 8, 8, 8),
      NewRectangle(16, 16, 32, 32),
      NewRectangle(8, 4, 0, 0),
      NewRectangle(-4, 4, 8, 8),
      NewRectangle(28, -12, 2, 2) }

NextNear ==
    \/ \E val \in ValueSet, b \in NearBounds : Room(MaxItems) /\ Insert(val, b, F(1))
    \/ \E val \in ValueSet, b \in NearBounds : Delete(val, b)
    \/ \E val \in ValueSet, ob \in NearBounds, nb \in UpdateBounds : Update(val, ob, nb, F(1))
    \/ Drop
    \/ \E q \in NearBounds \cup UpdateBounds : FindNear(q)

SpecNear == InitThreads /\ [][NextNear]_vars

----------------------------------------------------------------------------
(* Properties of the mutating operations *)

At(c) == Nodes[c[1]][c[2]]

RECURSIVE SumWeights(_)
SumWeights(items) ==
    IF items = <<>> THEN F(0)
    ELSE FAdd(SumWeights(SubSeq(items, 1, Len(items) - 1)), items[Len(items)].weight)

Count(sgn, val) == Cardinality({i \in 1..Len(sgn.Items) : sgn.Items[i].value = val})

\* floor(x / ChunkSize) clamped to [0, n-1]
FloorClamp(x, n) == Max(0, Min(n - 1, x \div ChunkSize))

RefCell(bounds) == <<FloorClamp(bounds.X, SizeX), FloorClamp(bounds.Y, SizeY)>>

\* bounds covers the whole reference rectangle of the node
Covers(bounds, sgn) == AreaOfOverlap(sgn.bounds, bounds) = ChunkSize * ChunkSize

\* C1: every cell's weight is the sum of the contributed weights of the
\* occupant records it holds (0 for a cell without occupants).
C1_WeightIsSumOfContributions ==
    \A c \in Cells : At(c).weight = SumWeights(At(c).Items)

\* C2: a Delete whose resolved cell holds no record equal to the value leaves
\* every cell's occupants, every cell's weight and Size() as they were.
C2_DeleteAbsentIsNoOp ==
    [][\A val \in ValueSet, b \in InsertBounds :
          (last'.op = "Delete" /\ Delete(val, b) /\ ~Holds(At(RefCell(b)), val))
              => (Nodes' = Nodes /\ Size' = Size)]_vars

\* C3: after Drop, Size() is 0, every cell holds no occupant and has weight 0,
\* and the cells are those of a freshly constructed grid, so that re-inserting
\* the same occupants gives the same weights as on a new grid.
C3_DropClears ==
    last.op = "Drop" =>
        /\ Size = 0
        /\ \A c \in Cells : At(c).Items = <<>> /\ At(c).weight = F(0)
        /\ \A c \in Cells : At(c).bounds = ChunkBounds(c[1], c[2], ChunkSize)
        /\ \A c \in Cells : At(c).x = c[1] /\ At(c).y = c[2]

C3_Witness ==
    /\ last.op = "Drop"
    /\ last.records = MaxItems
    /\ NaN \in last.weights
    /\ Size = 0

\* C4: Insert appends exactly one record, to the cell of the bounds' reference
\* position, and changes no other cell; on the 4x4 grid of chunk size 8 an
\* occupant centred at (4,4) goes to cell (0,0), one centred at (28,28) to (3,3).
C4_InsertOneCell ==
    [][\A val \in ValueSet, b \in InsertBounds, m \in Multipliers :
          (last'.op = "Insert" /\ Insert(val, b, m)) =>
              /\ Len(At(RefCell(b)).Items') = Len(At(RefCell(b)).Items) + 1
              /\ SubSeq(At(RefCell(b)).Items', 1, Len(At(RefCell(b)).Items)) = At(RefCell(b)).Items
              /\ LET r == At(RefCell(b)).Items'[Len(At(RefCell(b)).Items')]
                 IN  r.value = val /\ r.bounds = b /\ r.multiplier = m
              /\ \A c \in Cells \ {RefCell(b)} : Nodes'[c[1]][c[2]] = Nodes[c[1]][c[2]]
              /\ (<<SizeX, SizeY, ChunkSize>> = TestShape /\ b.X = 4 /\ b.Y = 4)
                    => RefCell(b) = <<0, 0>>
              /\ (<<SizeX, SizeY, ChunkSize>> = TestShape /\ b.X = 28 /\ b.Y = 28)
                    => RefCell(b) = <<3, 3>>]_vars

C4_Witness ==
    /\ <<SizeX, SizeY, ChunkSize>> = TestShape
    /\ last.op = "Insert"
    /\ \E i \in 1..Len(Nodes[0][0].Items) :
          Nodes[0][0].Items[i].bounds.X = 4 /\ Nodes[0][0].Items[i].bounds.Y = 4
    /\ \E i \in 1..Len(Nodes[3][3].Items) :
          Nodes[3][3].Items[i].bounds.X = 28 /\ Nodes[3][3].Items[i].bounds.Y = 28
    /\ NumRecords(Nodes) = 2

\* C5: inserting an occupant whose bounds cover its cell's reference rectangle
\* (area A) with multiplier m raises the cell's weight by exactly A*m, and
\* deleting that occupant right after brings the weight back to what it was
\* before the insertion.
C5_InsertDeleteRestoresWeight ==
    [][/\ \A val \in ValueSet, b \in InsertBounds, m \in Multipliers :
            (last'.op = "Insert" /\ Insert(val, b, m) /\ Covers(b, At(RefCell(b))))
                => Nodes'[RefCell(b)[1]][RefCell(b)[2]].weight
                     = FAdd(At(RefCell(b)).weight, FMul(F(ChunkSize * ChunkSize), m))
       /\ \A val \in ValueSet, b \in InsertBounds :
            (/\ last.op = "Insert" /\ last.val = val /\ last.loc = RefCell(b)
             /\ last'.op = "Delete"
             /\ Count(At(RefCell(b)), val) = 1
             /\ Covers(At(RefCell(b)).Items[Len(At(RefCell(b)).Items)].bounds, At(RefCell(b)))
             /\ Delete(val, b))
                => Nodes'[RefCell(b)[1]][RefCell(b)[2]].weight = last.prev]_vars

----------------------------------------------------------------------------
(* Properties of Location and FindNear *)

\* C6: for every coordinate, negative and beyond the grid included, Location
\* returns floor(x/chunkSize) clamped to [0, sizeX-1] and floor(y/chunkSize)
\* clamped to [0, sizeY-1], which is the index of a cell of the grid.
C6_LocationIsClampedFloor ==
    last.op = "Location" =>
        /\ last.ret = <<FloorClamp(last.x, SizeX), FloorClamp(last.y, SizeY)>>
        /\ last.ret \in Cells

C6_Witness ==
    /\ last.op = "Location"
    /\ last.x < 0 /\ last.x % ChunkSize # 0 /\ last.x > -ChunkSize
    /\ last.y > SizeY * ChunkSize
    /\ last.ret = <<0, SizeY - 1>>
    /\ SizeY > 1

\* The cells of the inclusive index rectangle between the cells of the
\* minimum and the maximum corner of bounds.
IndexRectangle(bounds) ==
    { c \in Cells :
        /\ FloorClamp(MinPoint(bounds).X, SizeX) <= c[1]
        /\ c[1] <= FloorClamp(MaxPoint(bounds).X, SizeX)
        /\ FloorClamp(MinPoint(bounds).Y, SizeY) <= c[2]
        /\ c[2] <= FloorClamp(MaxPoint(bounds).Y, SizeY) }

Occurrences(seq, val) == Cardinality({i \in DOMAIN seq : seq[i] = val})

\* C7: FindNear returns each value held by a cell of the index rectangle of
\* the query exactly once, and no other value.
C7_FindNearExactlyTheRectangle ==
    last.op = "FindNear" =>
        \A val \in ValueSet :
            Occurrences(last.ret, val) =
                (IF \E c \in IndexRectangle(last.bounds) : Holds(At(c), val) THEN 1 ELSE 0)

C7_Witness ==
    /\ last.op = "FindNear"
    /\ Cardinality(IndexRectangle(last.bounds)) > 1
    /\ \E c, d \in IndexRectangle(last.bounds) : c # d /\ Holds(At(c), 1) /\ Holds(At(d), 1)
    /\ last.ret = <<1>>

----------------------------------------------------------------------------
(* Properties of Search *)

\* 4-connected distance between two cells of the (obstacle-free) lattice
Hops(c, d) == Abs(c[1] - d[1]) + Abs(c[2] - d[2])

StartCell == <<FloorClamp(search.x, SizeX), FloorClamp(search.y, SizeY)>>

Searching == search.pc \in {"outer", "inner", "done"}

Returned == search.pc = "done"

VisitorNeverFailed == search.ret # "ErrVisitor"

CallCell(k) == <<search.calls[k].x, search.calls[k].y>>

\* C8: with maxDepth >= 0 and a visitor that never fails, the visitor is
\* invoked exactly once for each cell within maxDepth hops of the start cell
\* and for no other cell, with that cell's occupant values, nearer cells first.
\* (The values are compared while the search runs: once it has returned, the
\* grid may change.)
C8_SearchVisitsTheBall ==
    (Searching /\ search.maxDepth >= 0 /\ VisitorNeverFailed) =>
        /\ \A k \in DOMAIN search.calls :
              /\ CallCell(k) \in Cells
              /\ Hops(CallCell(k), StartCell) <= search.maxDepth
              /\ ~Returned => search.calls[k].values = Values(At(CallCell(k)))
              /\ \A j \in DOMAIN search.calls :
                    /\ j < k => Hops(CallCell(j), StartCell) <= Hops(CallCell(k), StartCell)
                    /\ j # k => CallCell(j) # CallCell(k)
        /\ Returned =>
              \A c \in Cells : Hops(c, StartCell) <= search.maxDepth
                                  => \E k \in DOMAIN search.calls : CallCell(k) = c

C8_Witness ==
    /\ Returned /\ VisitorNeverFailed
    /\ search.maxDepth = 1
    /\ Len(search.calls) = 5
    /\ \E k \in DOMAIN search.calls : search.calls[k].values = <<1>>
    /\ \E c \in Cells : Hops(c, StartCell) > 1

\* C9: if some cell is more than maxDepth hops from the start cell and the
\* visitor never fails, Search returns ErrMaxDepthReached.
C9_SearchDepthExceeded ==
    (Returned /\ VisitorNeverFailed /\ \E c \in Cells : Hops(c, StartCell) > search.maxDepth)
        => search.ret = "ErrMaxDepthReached"

C9_Witness ==
    /\ Returned
    /\ search.ret = "ErrMaxDepthReached"
    /\ search.maxDepth = 2
    /\ \E c \in Cells : Hops(c, StartCell) = 3
    /\ Len(search.calls) > 1

\* C10: when every cell is within maxDepth hops of the start cell and the
\* visitor never fails, Search returns nil.
C10_SearchCompletesWithinDepth ==
    (Returned /\ VisitorNeverFailed /\ \A c \in Cells : Hops(c, StartCell) <= search.maxDepth)
        => search.ret = "nil"

\* C23: a search that returned with a visitor that never failed visited the
\* cells the function of its arguments gives, and for every larger maxDepth
\* the same grid, start and visitor give a superset of these cells, and nil
\* if this search returned nil.
C23_SearchMonotoneInDepth ==
    (Returned /\ VisitorNeverFailed) =>
        /\ search.visited = SearchOf(search.x, search.y, search.maxDepth).visited
        /\ search.ret = SearchOf(search.x, search.y, search.maxDepth).ret
        /\ \A d \in search.maxDepth..(MaxDepth + 1) :
              /\ search.visited \subseteq SearchOf(search.x, search.y, d).visited
              /\ search.ret = "nil" => SearchOf(search.x, search.y, d).ret = "nil"

\* A search cut short at maxDepth 1 where maxDepth 3 visits more cells and
\* returns nil.
C23_Witness ==
    /\ Returned /\ VisitorNeverFailed
    /\ search.ret = "ErrMaxDepthReached"
    /\ search.maxDepth = 1
    /\ Cardinality(search.visited) = 3
    /\ SearchOf(search.x, search.y, 3).ret = "nil"
    /\ Cardinality(SearchOf(search.x, search.y, 3).visited) = 4

\* The in-grid cells among (x, y+1), (x, y-1), (x+1, y), (x-1, y), in this order
Around(c) ==
    SelectSeq(<< <<c[1], c[2] + 1>>, <<c[1], c[2] - 1>>, <<c[1] + 1, c[2]>>, <<c[1] - 1, c[2]>> >>,
              LAMBDA n : n \in Cells)

OnBorders(c) ==
    (IF c[1] \in {0, SizeX - 1} THEN 1 ELSE 0) + (IF c[2] \in {0, SizeY - 1} THEN 1 ELSE 0)

\* C28: for every cell, Edges returns the nodes of the in-grid cells among
\* (x, y+1), (x, y-1), (x+1, y), (x-1, y) and no other: on a grid of at least
\* 3x3, 2 for a corner, 3 for a border cell, 4 for an interior cell; every
\* node a search holds in its queue is a cell of the grid.
C28_EdgesAreInGridNeighbours ==
    /\ \A c \in Cells :
          LET edges == Edges(Node(c[1], c[2]))
          IN  /\ [k \in DOMAIN edges |-> <<edges[k].x, edges[k].y>>] = Around(c)
              /\ \A k \in DOMAIN edges : edges[k] = Node(edges[k].x, edges[k].y)
              /\ (SizeX >= 3 /\ SizeY >= 3) => Len(edges) = 4 - OnBorders(c)
    /\ (Searching /\ ~Returned) =>
          \A k \in DOMAIN search.queue : <<search.queue[k].x, search.queue[k].y>> \in Cells

\* A search on the 3x3 grid that has visited the interior cell and holds its
\* four neighbours in the queue.
C28_Witness ==
    /\ SizeX = 3 /\ SizeY = 3
    /\ Searching /\ ~Returned
    /\ StartCell = <<1, 1>>
    /\ search.visited = {<<1, 1>>}
    /\ Len(search.queue) = 4
    /\ Len(Edges(Node(0, 0))) = 2
    /\ Len(Edges(Node(0, 1))) = 3

\* C11: when the visitor returns an error on a cell, Search returns that error
\* in the same step: nothing is enqueued after the failing cell was dequeued,
\* the shared lock is released, and the visitor is not invoked again by this
\* search.
C11_VisitorErrorAborts ==
    [][/\ (Searching /\ search.ret = "running" /\ search'.ret \in VisitorResults \ {"nil"}) =>
            /\ search'.pc = "done"
            /\ search'.queue = Tail(search.queue)
            /\ Len(search'.calls) = Len(search.calls) + 1
            /\ nodesMu'.readers = nodesMu.readers - 1
            /\ nodesMu'.readers = 0
       /\ (Searching /\ search.ret \in VisitorResults \ {"nil"} /\ search'.ret = search.ret) =>
            search' = search]_vars

C11_Witness ==
    /\ Returned
    /\ search.ret = "ErrVisitor"
    /\ Len(search.calls) = 3
    /\ Len(search.queue) > 0
    /\ \E c \in Cells : \A k \in DOMAIN search.calls : CallCell(k) # c
    /\ nodesMu.readers = 0

----------------------------------------------------------------------------
(* Properties of WeightedSearch *)

Weighing == weighted.pc \in {"loop", "path", "walk", "done"}

Came == weighted.pc = "done"

StartNode == <<FloorClamp(weighted.start[1], SizeX), FloorClamp(weighted.start[2], SizeY)>>

EndNode == <<FloorClamp(weighted.end[1], SizeX), FloorClamp(weighted.end[2], SizeY)>>

IsCentreOf(w, c) ==
    /\ w[1] = (c[1] * ChunkSize) + (ChunkSize \div 2)
    /\ w[2] = (c[2] * ChunkSize) + (ChunkSize \div 2)

\* The cell a waypoint is the centre of
CellOf(w) == CHOOSE c \in Cells : IsCentreOf(w, c)

\* C12: a successful WeightedSearch returns a sequence of cell centres that
\* starts at the start cell, ends at the end cell, steps between 4-adjacent
\* cells and holds no cell twice.
C12_PathIsSimpleWalk ==
    (Came /\ weighted.ret = "nil") =>
        LET path == weighted.path
        IN  /\ Len(path) >= 1
            /\ \A k \in DOMAIN path : \E c \in Cells : IsCentreOf(path[k], c)
            /\ IsCentreOf(path[1], StartNode)
            /\ IsCentreOf(path[Len(path)], EndNode)
            /\ \A k \in 1..(Len(path) - 1) : Hops(CellOf(path[k]), CellOf(path[k + 1])) = 1
            /\ \A j, k \in DOMAIN path : j # k => path[j] # path[k]

C12_Witness ==
    /\ Came /\ weighted.ret = "nil"
    /\ Len(weighted.path) = 4
    /\ weighted.start = <<1, 7>>
    /\ weighted.path[1] = <<4, 4>>
    /\ EndNode[1] # StartNode[1] /\ EndNode[2] # StartNode[2]
    /\ \E c \in Cells : At(c).weight = PosInf

\* The cost of a path: the sum of the weights of the cells entered after the
\* first waypoint.
RECURSIVE PathCost(_)
PathCost(path) ==
    IF Len(path) <= 1 THEN F(0)
    ELSE FAdd(PathCost(SubSeq(path, 1, Len(path) - 1)), At(CellOf(path[Len(path)])).weight)

Neighbours(c) == {n \in Cells : Hops(n, c) = 1}

\* The least of a set of costs, NaN left out
Least(costs) ==
    CHOOSE m \in {a \in costs : a # NaN} : \A o \in costs : ~FLess(o, m)

\* Cheapest cost from the start cell by paths of at most k more steps
RECURSIVE Cheapest(_, _)
Cheapest(dist, k) ==
    IF k = 0 THEN dist
    ELSE Cheapest([c \in Cells |->
                      Least({dist[c]} \cup {FAdd(dist[n], At(c).weight) : n \in Neighbours(c)})],
                  k - 1)

MinCost(from, to) ==
    Cheapest([c \in Cells |-> IF c = from THEN F(0) ELSE PosInf], Cardinality(Cells))[to]

\* C13: the path a successful WeightedSearch returns costs no more than any
\* other 4-connected path from the start cell to the end cell.
C13_PathIsCheapest ==
    (Came /\ weighted.ret = "nil") =>
        ~FLess(MinCost(StartNode, EndNode), PathCost(weighted.path))

\* C14: no cost record and no predecessor record exists for a cell (other
\* than the start cell) whose weight is +Inf, and no returned path enters
\* such a cell.
C14_InfiniteCellsPruned ==
    Weighing =>
        /\ \A c \in (DOMAIN weighted.costs \cup DOMAIN weighted.cameFrom) \ {StartNode} :
              At(c).weight # PosInf
        /\ \A k \in 2..Len(weighted.path) : At(CellOf(weighted.path[k])).weight # PosInf

HoldsInfinite(sgn) == \E i \in 1..Len(sgn.Items) : sgn.Items[i].multiplier = PosInf

\* C15: when the end cell differs from the start cell and every 4-connected
\* neighbour of the end cell holds an occupant of infinite multiplier,
\* WeightedSearch returns ErrPathNotFound, whatever maxDepth.
C15_WalledEndNotFound ==
    (/\ Came
     /\ EndNode # StartNode
     /\ \A n \in Neighbours(EndNode) : HoldsInfinite(At(n)))
        => weighted.ret = "ErrPathNotFound"

Dequeues == weighted.currentDepth + (IF weighted.found THEN 1 ELSE 0)

\* C16: a step of the main loop returns ErrMaxDepthReached exactly when the
\* iteration counter exceeds maxDepth while the queue is not empty (the end
\* cell not having been dequeued); no other step returns it, and at most
\* maxDepth + 1 cells are dequeued.
C16_MaxDepthBoundsIterations ==
    [][/\ weighted.pc = "loop" =>
            ((weighted'.pc = "done" /\ weighted'.ret = "ErrMaxDepthReached")
                <=> (/\ weighted.currentDepth > weighted.maxDepth
                     /\ BagToSet(weighted.pq) # {}
                     /\ ~weighted.found))
       /\ (Weighing /\ weighted.pc # "loop" /\ weighted.ret = "running") =>
            weighted'.ret # "ErrMaxDepthReached"
       /\ (weighted'.pc # "idle" /\ weighted'.maxDepth >= -1) =>
            (weighted'.currentDepth + (IF weighted'.found THEN 1 ELSE 0))
                <= weighted'.maxDepth + 1]_vars

\* The budget runs out although the end cell is within maxDepth steps of the
\* start cell.
C16_Witness ==
    /\ Came
    /\ weighted.ret = "ErrMaxDepthReached"
    /\ weighted.maxDepth = 1
    /\ Dequeues = 2
    /\ Hops(StartNode, EndNode) = 1
    /\ \A c \in Cells : At(c).weight # NaN

C27_HeuristicAdmissible ==
    Weighing =>
        \A c \in Cells :
            MinCost(c, EndNode).k = "fin" =>
                ~FLess(MinCost(c, EndNode), heuristic(Node(c[1], c[2]), Node(EndNode[1], EndNode[2])))

\* C29: a WeightedSearch ends: its main loop makes at most maxDepth + 1
\* iterations, and the walk over the predecessor records from the end cell
\* reaches the start cell (it never enters a cycle of predecessor records).
C29_WeightedSearchTerminates ==
    Weighing =>
        /\ weighted.currentDepth <= Max(weighted.maxDepth, -1) + 1
        /\ weighted.pc # "walk"

\* C30: a WeightedSearch with maxDepth >= 0 whose start and end resolve to
\* one cell returns no error and the centre of that cell as only waypoint,
\* whatever the weights of the cells.
C30_SameCellSingleWaypoint ==
    (Came /\ StartNode = EndNode /\ weighted.maxDepth >= 0) =>
        /\ weighted.ret = "nil"
        /\ Len(weighted.path) = 1
        /\ IsCentreOf(weighted.path[1], StartNode)

\* Start and end in a cell of weight +Inf next to a cell of weight NaN.
C30_Witness ==
    /\ Came /\ weighted.ret = "nil"
    /\ StartNode = <<1, 1>> /\ EndNode = <<1, 1>>
    /\ weighted.maxDepth = 1
    /\ weighted.path = << <<12, 12>> >>
    /\ At(<<1, 1>>).weight = PosInf
    /\ At(<<1, 0>>).weight = NaN

ObstacleFree == \A c \in Cells : At(c).weight = F(0)

Sign(n) == IF n > 0 THEN 1 ELSE IF n < 0 THEN -1 ELSE 0

\* C22: on a grid whose cells all weigh 0, a WeightedSearch whose maxDepth is
\* at least the Manhattan distance of the two cells succeeds with exactly
\* distance + 1 waypoints, and between two cells of one row or one column
\* the waypoints are the centres of the cells between them, in order.
C22_StraightOnEmptyGrid ==
    (Came /\ ObstacleFree /\ weighted.maxDepth >= Hops(StartNode, EndNode)) =>
        /\ weighted.ret = "nil"
        /\ Len(weighted.path) = Hops(StartNode, EndNode) + 1
        /\ (StartNode[1] = EndNode[1] \/ StartNode[2] = EndNode[2]) =>
              \A k \in DOMAIN weighted.path :
                  IsCentreOf(weighted.path[k],
                             <<StartNode[1] + ((k - 1) * Sign(EndNode[1] - StartNode[1])),
                               StartNode[2] + ((k - 1) * Sign(EndNode[2] - StartNode[2]))>>)

C22_Witness ==
    /\ Came /\ ObstacleFree
    /\ StartNode = <<0, 0>> /\ EndNode = <<2, 0>>
    /\ SizeY = 2
    /\ weighted.path = <<Centre(<<0, 0>>), Centre(<<1, 0>>), Centre(<<2, 0>>)>>
    /\ NumRecords(Nodes) = 0

----------------------------------------------------------------------------
(* Properties of concurrent calls *)

\* The step in which goroutine t reads the grid for a read-only call
ReadsGrid(t) ==
    \/ threads[t].pc = "Read" /\ threads'[t].pc = "done"
    \/ /\ threads'[t].pc = "done" /\ threads'[t].call = "Size"
       /\ \/ threads[t].pc = "idle"
          \/ threads[t].pc = "done" /\ threads[t].call # "Size"
          \/ threads[t].pc = "done" /\ threads[t].call = "Size"
                /\ threads[t].ret # threads'[t].ret

\* C18: a store to the grid is made with the exclusive lock held, and no
\* read-only call, Size included, reads the grid while a mutating call
\* holds the exclusive lock.
C18_ReadersExcludeWriters ==
    [][/\ (Nodes' # Nodes \/ itemCount' # itemCount) => nodesMu.writer
       /\ \A t \in Threads : ReadsGrid(t) => ~nodesMu.writer]_vars

\* Goroutine t is in Update, after the Unlock of its Delete and before the
\* Lock of its Insert
BetweenSections(t) ==
    threads[t].pc = "Lock" /\ threads[t].call = "Update" /\ threads[t].op = "Insert"

Total(val) ==
    LET RECURSIVE Sum(_)
        Sum(cs) == IF cs = {} THEN 0
                   ELSE LET c == CHOOSE c \in cs : TRUE
                        IN  Count(At(c), val) + Sum(cs \ {c})
    IN  Sum(Cells)

\* C19: while a value held once is moved by Update, it is never held by two
\* cells; between the two critical sections of Update the lock is free for
\* readers and the value is held by no cell.
C19_UpdateIsTwoSections ==
    /\ Total(1) <= 1
    /\ BetweenSections("a") => (~nodesMu.writer /\ Total(1) = 0)

\* A reader holds the shared lock between the two sections and will find
\* the value absent from the whole grid.
C19_Witness ==
    /\ BetweenSections("a")
    /\ threads["b"].pc = "Read" /\ threads["b"].call = "FindNear"
    /\ nodesMu.readers = 1
    /\ FindNearKeys(threads["b"].bounds) = {}

\* C24: Size() is the number of occupant records held by all cells together,
\* and is never negative.
C24_SizeCountsRecords ==
    Size = NumRecords(Nodes) /\ Size >= 0

\* sgn without its i-th record, the last record moved into its place
SwapRemove(sgn, i) ==
    [sgn EXCEPT !.weight = FSub(sgn.weight, sgn.Items[i].weight),
                !.Items = SubSeq([sgn.Items EXCEPT ![i] = sgn.Items[Len(sgn.Items)]],
                                 1, Len(sgn.Items) - 1)]

\* C25: a Delete whose resolved cell holds at least one record equal to the
\* value removes exactly one such record from that cell, the last record
\* taking its place, subtracts that record's weight from the cell's weight,
\* and changes no other cell, whatever the extent of the bounds.
C25_DeleteRemovesOne ==
    [][\A val \in ValueSet, b \in InsertBounds :
          (last'.op = "Delete" /\ Delete(val, b) /\ Holds(At(RefCell(b)), val))
              => /\ \E i \in 1..Len(At(RefCell(b)).Items) :
                       /\ At(RefCell(b)).Items[i].value = val
                       /\ Nodes'[RefCell(b)[1]][RefCell(b)[2]] = SwapRemove(At(RefCell(b)), i)
                 /\ \A c \in Cells \ {RefCell(b)} : Nodes'[c[1]][c[2]] = At(c)]_vars

\* C26: the cell array has SizeX rows of SizeY nodes; the node at index
\* (i, j) records the coordinates (i, j) and the square of side ChunkSize
\* centred at (i*ChunkSize + ChunkSize/2, j*ChunkSize + ChunkSize/2).
C26_CellArrayShape ==
    /\ DOMAIN Nodes = 0..(SizeX - 1)
    /\ \A i \in DOMAIN Nodes :
          /\ DOMAIN Nodes[i] = 0..(SizeY - 1)
          /\ \A j \in DOMAIN Nodes[i] :
                /\ Nodes[i][j].x = i /\ Nodes[i][j].y = j
                /\ Nodes[i][j].bounds.X = (i * ChunkSize) + (ChunkSize \div 2)
                /\ Nodes[i][j].bounds.Y = (j * ChunkSize) + (ChunkSize \div 2)
                /\ Nodes[i][j].bounds.Width = ChunkSize
                /\ Nodes[i][j].bounds.Height = ChunkSize

\* The 4x4 grid right after a Drop that discarded a record.
C26_Witness ==
    /\ <<SizeX, SizeY, ChunkSize>> = TestShape
    /\ last.op = "Drop"
    /\ last.records = 1
    /\ Nodes[3][0].bounds = NewRectangle(28, 4, 8, 8)
    /\ Nodes[3][0].x = 3 /\ Nodes[3][0].y = 0

----------------------------------------------------------------------------
(* Properties of the sequential Update *)

\* The records of a cell without those equal to val, as a bag
Others(sgn, val) ==
    LET RECURSIVE Collect(_)
        Collect(i) == IF i = 0 THEN EmptyBag
                      ELSE IF sgn.Items[i].value = val THEN Collect(i - 1)
                      ELSE Collect(i - 1) (+) SetToBag({sgn.Items[i]})
    IN  Collect(Len(sgn.Items))

\* C20: for a value held exactly once, in the cell of oldBounds, Update
\* leaves the value held exactly once, in the cell of newBounds, as a record
\* of the new bounds and multiplier weighing overlap * multiplier; the other
\* records are kept; every cell whose weight was the sum of its records'
\* contributions has again the sum of its records' contributions as weight
\* (the old contribution removed, the new one added); Size() is unchanged.
C20_UpdateMovesValue ==
    [][\A val \in ValueSet, ob \in UpdateBounds, nb \in UpdateBounds, m \in Multipliers :
          (/\ last'.op = "Update" /\ Update(val, ob, nb, m)
           /\ Total(val) = 1 /\ Count(At(RefCell(ob)), val) = 1)
              => LET new == Nodes'[RefCell(nb)[1]][RefCell(nb)[2]]
                     r == new.Items[Len(new.Items)]
                 IN  /\ \A c \in Cells :
                            Count(Nodes'[c[1]][c[2]], val) = IF c = RefCell(nb) THEN 1 ELSE 0
                     /\ r = newSpatialGridNodeItem(val, nb,
                                FMul(F(AreaOfOverlap(new.bounds, nb)), m), m)
                     /\ \A c \in Cells : Others(Nodes'[c[1]][c[2]], val) = Others(At(c), val)
                     /\ \A c \in Cells :
                            At(c).weight = SumWeights(At(c).Items)
                                => Nodes'[c[1]][c[2]].weight
                                      = SumWeights(Nodes'[c[1]][c[2]].Items)
                     /\ Size' = Size]_vars

----------------------------------------------------------------------------
(* Properties of FindNear over the bounds of an inserted occupant *)

Records(sgn) == {sgn.Items[i] : i \in 1..Len(sgn.Items)}

Range(seq) == {seq[i] : i \in DOMAIN seq}

\* C31: a value inserted with some bounds is returned by FindNear of those
\* bounds for as long as its record is held, and its record stays in its cell
\* until a Delete (by itself or as the first half of Update) of that value
\* resolves to that cell, or Drop is called: the cell of the reference
\* position lies in the index rectangle of the two corners.
C31_InsertedIsFound ==
    /\ [](\A c \in Cells : \A r \in Records(At(c)) :
             /\ r.value \in FindNearKeys(r.bounds)
             /\ c \in IndexRectangle(r.bounds)
             /\ (last.op = "FindNear" /\ last.bounds = r.bounds)
                    => r.value \in Range(last.ret))
    /\ [][\A c \in Cells : \A r \in Records(At(c)) :
             \/ r \in Records(Nodes'[c[1]][c[2]])
             \/ last'.op = "Drop"
             \/ \E b \in NearBounds :
                    /\ RefCell(b) = c
                    /\ \/ Delete(r.value, b)
                       \/ \E nb \in UpdateBounds : Update(r.value, b, nb, F(1))]_vars

\* FindNear of a rectangle across four chunks has returned the value of a
\* record inserted with that rectangle, held by the last of the four.
C31_Witness ==
    /\ last.op = "FindNear"
    /\ last.bounds = NewRectangle(8, 8, 8, 8)
    /\ Cardinality(IndexRectangle(last.bounds)) = 4
    /\ \E r \in Records(At(<<1, 1>>)) : r.bounds = last.bounds /\ r.value = 2
    /\ last.ret = <<2>>

----------------------------------------------------------------------------
(* Properties of searches run beside mutating calls *)

\* Search is between its RLock and its return
InSearch == search.pc \in {"outer", "inner"}

\* WeightedSearch is between its RLock and its return
InWeightedSearch == weighted.pc \in {"loop", "path", "walk"}

\* Every visitor invocation made so far was given the values the cell holds
CallsAgree(calls, nodes) ==
    \A k \in 1..Len(calls) : calls[k].values = Values(nodes[calls[k].x][calls[k].y])

\* C32: from the entry of Search or WeightedSearch to its return the shared
\* lock is held and no writer holds the lock, and no step between changes a
\* cell or the item count; so every visitor invocation of one Search was
\* given the values its cell holds in the one grid state of the search.
C32_SearchHoldsSharedLock ==
    /\ []((InSearch \/ InWeightedSearch) => (nodesMu.readers >= 1 /\ ~nodesMu.writer))
    /\ [](InSearch => CallsAgree(search.calls, Nodes))
    /\ [][/\ (InSearch \/ InWeightedSearch) => (Nodes' = Nodes /\ itemCount' = itemCount)
          /\ InSearch => CallsAgree(search'.calls, Nodes')]_vars

\* A Search that has visited two cells, one of them occupied, while Drop
\* waits for the lock.
C32_Witness ==
    /\ search.pc = "inner"
    /\ Len(search.calls) >= 2
    /\ search.calls[1].values = <<1>>
    /\ threads["a"].pc = "Lock" /\ threads["a"].op = "Drop"
    /\ nodesMu.readers = 1

\* Both goroutines have returned from Update
BothUpdated == \A t \in Threads : threads[t].pc = "done" /\ threads[t].call = "Update"

\* C33: when two concurrent Update calls for a value held once, issued with
\* the same oldBounds, have both returned, the value is held by exactly one
\* cell and Size() is the number of records held.
C33_TwoUpdatesKeepOne ==
    BothUpdated =>
        /\ Cardinality({c \in Cells : Holds(At(c), 1)}) = 1
        /\ Size = NumRecords(Nodes)

----------------------------------------------------------------------------
(* Properties of the multi-cell revision *)

MultiHolds(nodes, c, val) == \E i \in 1..Len(nodes[c[1]][c[2]].items) : nodes[c[1]][c[2]].items[i] = val

\* C34: Insert appends the value to the values of every chunk of the index
\* rectangle of the bounds and to no other; Delete changes no chunk outside
\* that rectangle; and a Delete of a value with the bounds it was just
\* inserted with, the value held nowhere before, leaves every chunk with
\* the values it had before the Insert and the value held nowhere.
C34_MultiInsertDeleteRestores ==
    [][\A val \in ValueSet, b \in MultiBounds :
          /\ (last'.op = "Insert" /\ MultiInsert(val, b))
                => \A c \in Cells :
                      Nodes'[c[1]][c[2]].items =
                          IF c \in IndexRectangle(b)
                          THEN Append(Nodes[c[1]][c[2]].items, val)
                          ELSE Nodes[c[1]][c[2]].items
          /\ (last'.op = "Delete" /\ MultiDelete(val, b))
                => \A c \in Cells \ IndexRectangle(b) : Nodes'[c[1]][c[2]] = Nodes[c[1]][c[2]]
          /\ (/\ last'.op = "Delete" /\ MultiDelete(val, b)
              /\ last.op = "Insert" /\ last.val = val /\ last.bounds = b
              /\ \A c \in Cells : ~MultiHolds(last.before, c, val))
                => /\ Nodes' = last.before
                   /\ \A c \in Cells : ~MultiHolds(Nodes', c, val)]_vars

\* Value 2 was inserted across four chunks, one of them holding value 1,
\* and deleted with the same bounds.
C34_Witness ==
    /\ last.op = "Delete"
    /\ last.val = 2
    /\ last.bounds = NewRectangle(8, 8, 8, 8)
    /\ Cardinality(IndexRectangle(last.bounds)) = 4
    /\ last.after
    /\ \A c \in Cells : ~MultiHolds(last.before, c, 2)
    /\ Nodes = last.before
    /\ MultiHolds(Nodes, <<0, 0>>, 1)
    /\ ~MultiHolds(Nodes, <<1, 1>>, 1)

----------------------------------------------------------------------------
(* Properties of the read-only calls *)

\* A step of a read-only call: of goroutine b, of Search, of WeightedSearch,
\* or a call of Location or FindNear
ReadOnlyStep ==
    \/ threads'["b"].pc # threads["b"].pc
    \/ /\ threads["b"].pc = "done" /\ threads'["b"].pc = "done"
       /\ \/ threads'["b"].call # threads["b"].call
          \/ threads["b"].call = "Size" /\ threads'["b"].ret # threads["b"].ret
          \/ HasItems("b") /\ threads'["b"].ret # threads["b"].ret
    \/ search' # search
    \/ weighted' # weighted
    \/ last' # last /\ last'.op \in {"Location", "FindNear"}

\* C35: no step of Size, FindNear, GetItemsAtLocation, GetLocationWeight,
\* Location, Search or WeightedSearch, whether the call returns a result, an
\* error or panics, and no store of the caller to the slice returned by
\* GetItemsAtLocation, changes a cell's occupants, a cell's weight, the item
\* count or the shape of the grid.
C35_ReadOnlyCallsChangeNothing ==
    [][ReadOnlyStep =>
          /\ Nodes' = Nodes
          /\ itemCount' = itemCount
          /\ <<SizeX, SizeY, ChunkSize>>' = <<SizeX, SizeY, ChunkSize>>]_vars

\* The caller has overwritten the one element of the slice returned by
\* GetItemsAtLocation(0, 0), and the cell still holds its value.
C35_Witness ==
    /\ HasItems("b")
    /\ threads["b"].bounds = <<0, 0>>
    /\ threads["b"].ret = <<2>>
    /\ Values(At(<<0, 0>>)) = <<1>>
    /\ last.op = "Insert"


\* C21: a construction with a non-positive dimension or a non-positive chunk
\* size returns no grid.
C21_MalformedRejected ==
    (SizeX <= 0 \/ SizeY <= 0 \/ ChunkSize <= 0) => ~Constructed

====
